---- MODULE Spec2Model ----
(***************************************************************************)
(* A model of the Research_system workflow engine: the plan tree store     *)
(* (tools/plan_manager.py), the plan updater (agents/plan_updater.py) and  *)
(* the stage graph of orchestrator.py (planning, critique, router,         *)
(* research, writing, exploration, summarize).  Modelled step by step, on  *)
(* their own variables: the Blackboard under its lock (tools/              *)
(* blackboard.py), the expert debate of research_node, the retrieval       *)
(* fan-out (agents/retrieval_agent.py) and the user proposals that         *)
(* add_new_task (status_server.py) posts while exploration_node runs.      *)
(*                                                                         *)
(* The GraphState dictionary is modelled as the code writes it: a stage's  *)
(* returned keys and the in-place assignments state[...] = ... of the      *)
(* stages and of after_critique_router all take effect on the one state    *)
(* the next stage reads.                                                   *)
(*                                                                         *)
(* Plan nodes are numbered in creation order (the code gives each a fresh  *)
(* uuid): node 1 is the root, plan.par[n] is the parent of n (0 for the    *)
(* root) and plan.st[n] its status.  Children are only ever appended, so   *)
(* the insertion order of a node's children is their numeric order.        *)
(* The draft the Writing stage produces in the k-th Research attempt on    *)
(* node n is named <<n, k>>.                                               *)
(***************************************************************************)
EXTENDS Integers, Sequences, FiniteSets, TLC

\* ---- bounds of the model ----
MaxNodes == 4          \* nodes of the plan tree in the engine specification
MaxDeepNodes == 7      \* nodes of the plan tree in the deep-tree specification
MaxStoreNodes == 4     \* nodes of the plan tree in the store specification
MaxInitChildren == 2   \* children the planner gives the root
MaxProposals == 2      \* proposals one Exploration stage processes
MaxKeys == 2           \* keys of a blackboard section in the concurrent specifications
MaxExperts == 3        \* experts of one debate
MaxQueries == 1        \* search queries of one retrieval
MaxDocKeys == 2        \* distinct documents (doc_id or content) the sources hold
MaxTextLen == 4        \* tokens of a reply handed to the JSON extractor
MaxJsonLen == 5        \* tokens of a JSON value rendered between the markers
MaxStartRequests == 3  \* start requests the server accepts in one behaviour

\* ---- constants of the program ----
MAX_PLAN_DEPTH == 5
RESEARCH_APPROVAL_THRESHOLD == 80
MAX_RESEARCH_RETRIES == 3
PLAN_APPROVAL_THRESHOLD == 90
None == 0
NOT_FOUND == -1
DEBATE_ROUNDS == 3

\* ratings the evaluation strategy may yield (0 is also the parse-failure rating)
PlanRatings == {50, PLAN_APPROVAL_THRESHOLD}
DraftRatings == {0, 50, RESEARCH_APPROVAL_THRESHOLD + 1}
\* what the evaluation strategy may reply: an object with rating and feedback;
\* a reply with no JSON, invalid JSON or an object without the two keys; a
\* JSON string or array in which the words rating and feedback occur
CriticReplies == {"evaluation", "unparsable", "names_the_keys"}
Statuses == {"pending", "in-progress", "completed"}
\* a proposal without one of its three keys; with them, by the reply of its
\* approval check: APPROVE, REJECT, or a reply without a decision tag
ProposalKinds == {"invalid", "approve", "reject", "unparsable"}

VARIABLES
    plan,                   \* PlanManager.plan: [par, st], both empty when there is no plan
    pc,                     \* the stage of the graph that runs next
    last_completed_node,
    current_plan_node_id,
    feedback,               \* state["feedback"]: [rating, fb]
    planning_feedback,
    research_feedback,
    research_retry_count,
    best_draft_so_far,
    best_rating_so_far,
    retrieved_data,         \* blackboard section retrieved_data, key "docs"
    expert_discussion,      \* blackboard section expert_discussion, key "transcript"
    output_draft,           \* blackboard section output_draft: node id -> draft
    final_content,          \* blackboard section final_content: node id -> content
    final_summary,
    final_order,            \* the keys of section final_content in the order they were first posted
    summary_input,          \* the text summarize_node handed to the final summarization, as a list of contents
    summary_calls,          \* history: the number of calls of the final summarization
    feedback_task,          \* history: the task whose rejection stored research_feedback, None when it holds none
    experts_feedback,       \* history: the feedback the last debate's workers were handed, and the task it is about
    critic_previous_feedback, \* history: previous_feedback of the last draft evaluation
    produced_by,            \* history: per operational artifact on the blackboard, the task and attempt that posted it
    stage_read,             \* history: the artifacts the stages after the last Research have read, by task and attempt
    evals,                  \* history: node id -> sequence of <<draft, rating>> evaluated for it
    attempts,               \* history: node id -> number of Research stages that worked on it
    route,                  \* history: the branch the router took last
    lastExploration,        \* history: what the last Exploration stage did
    storeRet,               \* the last direct PlanManager call: its name, its node id argument, its result
    plan_file,              \* research_plan.json: the tree the last finished _save_plan wrote, NoPlan when there is no file
    transcript_file,        \* blackboard.json: what the last _save_data wrote under expert_discussion, transcript
    saving,                 \* the file a writer has opened with mode 'w' and not yet written and closed
    status_seen,            \* what the status report's last read of research_plan.json gave
    held,                   \* a Blackboard section in memory: key -> the content of the value object stored under it
    snapshot,               \* the mapping the last get_section returned, as its caller has it now
    shared,                 \* the keys under which snapshot and section hold the same value object
    llm_output,             \* the reply text handed to parse_llm_json_output
    parsed,                 \* what parse_llm_json_output returned for it
    is_running,             \* app.state.system_status["is_running"]
    run_thread,             \* per background thread: none, started, invoking (the graph runs), finished
    last_response,          \* the status code of the last answer of /api/start_research
    bb_data,                \* Blackboard._data: section -> [present, items]
    bb_file,                \* the blackboard file, as _save_data wrote it last
    bb_lock,                \* Blackboard._lock: the thread that holds it, NoThread when free
    bb_call,                \* per thread: the Blackboard call it is in, its position and result
    bb_lin,                 \* history: the store after the calls so far, run one at a time
    bb_expected,            \* history: per thread, what its call returns when run one at a time
    debate_pc,              \* research_node's position in the debate: idle, round, finished, raised
    debate_i,               \* the debate round in progress (i + 1 of the loop)
    debate_experts,         \* len(experts)
    discussion_history,     \* the list the rounds extend and every worker is handed
    worker,                 \* per expert: the state of its call in this round and the history it read
    debate_transcript,      \* blackboard section expert_discussion, key "transcript"
    debate_done,            \* history: round -> number of its workers that returned
    ret_pc,                 \* RetrievalAgent.execute's position: idle, collect, done
    job,                    \* per search job: its state and the documents it returned
    ret_collected,          \* the futures as_completed has yielded so far
    all_retrieved_docs,
    final_results,          \* what RetrievalAgent.execute returns
    rag_added,              \* the documents step 4 added to the RAG store
    expl_pc,                \* exploration_node's position in its user-proposal steps
    user_proposals,         \* exploration_node's local: the proposals it read
    web_task,               \* add_new_task: the task id it is posting, None when idle
    next_task,              \* the number of task ids add_new_task has made up
    accepted,               \* history: the task ids add_new_task answered with success
    processed               \* history: task id -> number of times an Exploration took it

vars == <<plan, pc, last_completed_node, current_plan_node_id, feedback,
          planning_feedback, research_feedback, research_retry_count,
          best_draft_so_far, best_rating_so_far, retrieved_data,
          expert_discussion, output_draft, final_content, final_summary,
          final_order, summary_input, summary_calls,
          feedback_task, experts_feedback, critic_previous_feedback,
          produced_by, stage_read,
          evals, attempts, route, lastExploration, storeRet,
          plan_file, transcript_file, saving, status_seen,
          held, snapshot, shared, llm_output, parsed,
          is_running, run_thread, last_response,
          bb_data, bb_file, bb_lock, bb_call, bb_lin, bb_expected,
          debate_pc, debate_i, debate_experts, discussion_history, worker,
          debate_transcript, debate_done,
          ret_pc, job, ret_collected, all_retrieved_docs, final_results, rag_added,
          expl_pc, user_proposals, web_task, next_task, accepted, processed>>

boardVars == <<bb_data, bb_file, bb_lock, bb_call, bb_lin, bb_expected>>

debateVars == <<debate_pc, debate_i, debate_experts, discussion_history, worker,
                debate_transcript, debate_done>>

retrievalVars == <<ret_pc, job, ret_collected, all_retrieved_docs, final_results, rag_added>>

serverVars == <<expl_pc, user_proposals, web_task, next_task, accepted, processed>>

reportVars == <<final_order, summary_input, summary_calls>>

persistVars == <<transcript_file, saving, status_seen>>

copyVars == <<held, snapshot, shared>>

parserVars == <<llm_output, parsed>>

runVars == <<is_running, run_thread, last_response>>

libVars == <<copyVars, parserVars, runVars>>

feedbackVars == <<feedback_task, experts_feedback, critic_previous_feedback>>

provenanceVars == <<produced_by, stage_read>>

\* what the stage graph and the plan store leave alone
auxVars == <<boardVars, debateVars, retrievalVars, serverVars, persistVars, libVars>>

engineVars == <<pc, last_completed_node, current_plan_node_id, feedback,
          planning_feedback, research_feedback, research_retry_count,
          best_draft_so_far, best_rating_so_far, retrieved_data,
          expert_discussion, output_draft, final_content, final_summary,
          final_order, summary_input, summary_calls,
          feedback_task, experts_feedback, critic_previous_feedback,
          produced_by, stage_read,
          evals, attempts, route, lastExploration>>

\* ------------------------------------------------------------------------
\* Plan tree store (tools/plan_manager.py)
\* ------------------------------------------------------------------------
NoPlan == [par |-> <<>>, st |-> <<>>]

\* the status report has read nothing yet
NothingSeen == "nothing"

NodeIds(p) == 1..Len(p.par)

RECURSIVE PendingSeq(_)
PendingSeq(k) == IF k = 0 THEN <<>> ELSE Append(PendingSeq(k - 1), "pending")

RECURSIVE RootChildren(_)
RootChildren(k) == IF k = 0 THEN <<>> ELSE Append(RootChildren(k - 1), 1)

\* create_plan: a new root with the given children, every node pending
CreatePlan(k) == [par |-> <<0>> \o RootChildren(k), st |-> PendingSeq(k + 1)]

RECURSIVE ChildrenFrom(_, _, _)
ChildrenFrom(p, n, i) ==
    IF i > Len(p.par) THEN <<>>
    ELSE (IF p.par[i] = n THEN <<i>> ELSE <<>>) \o ChildrenFrom(p, n, i + 1)

\* node.children, in insertion order
Children(p, n) == ChildrenFrom(p, n, 1)

RECURSIVE Reverse(_)
Reverse(s) == IF s = <<>> THEN <<>> ELSE Append(Reverse(Tail(s)), Head(s))

\* _find_node_by_id: the node with that id, None when the tree has none
FindNodeById(p, node_id) == IF node_id \in NodeIds(p) THEN node_id ELSE None

\* the loop of get_next_pending_node over its explicit stack (top = last element);
\* the stack after the push is bound as a value before the next iteration
RECURSIVE DfsStack(_, _)
DfsStack(p, stack) ==
    IF stack = <<>> THEN None
    ELSE LET current_node == stack[Len(stack)]
             rest == SubSeq(stack, 1, Len(stack) - 1)
         IN IF p.st[current_node] = "pending" THEN current_node
            ELSE CHOOSE found \in {DfsStack(p, pushed) :
                                      pushed \in {rest \o Reverse(Children(p, current_node))}} : TRUE

RECURSIVE DfsStackUnreversed(_, _)
DfsStackUnreversed(p, stack) ==
    IF stack = <<>> THEN None
    ELSE LET current_node == stack[Len(stack)]
             rest == SubSeq(stack, 1, Len(stack) - 1)
         IN IF p.st[current_node] = "pending" THEN current_node
            ELSE CHOOSE found \in {DfsStackUnreversed(p, pushed) :
                                      pushed \in {rest \o Children(p, current_node)}} : TRUE

\* mutant: the children are pushed without reversed()
GetNextPendingNodeUnreversed(p) ==
    IF p = NoPlan THEN None ELSE DfsStackUnreversed(p, <<1>>)

GetNextPendingNode(p) == IF p = NoPlan THEN None ELSE DfsStack(p, <<1>>)

UpdateNodeStatus(p, node_id, new_status) ==
    IF p = NoPlan THEN p
    ELSE IF FindNodeById(p, node_id) # None
         THEN [p EXCEPT !.st[node_id] = new_status]
         ELSE p

\* _save_plan after a call that changed the tree: the file holds the new tree;
\* a call that found no node returns before _save_plan
PlanFileAfter(file, before, after) == IF after # before THEN after ELSE file

\* mutant: a parent that is not found is replaced by the root
AddSubNodeUnderRoot(p, parent_id) ==
    IF p = NoPlan THEN p
    ELSE [par |-> Append(p.par, IF FindNodeById(p, parent_id) # None THEN parent_id ELSE 1),
          st |-> Append(p.st, "pending")]

\* add_sub_node: appends a pending child under parent_id; no depth check here
AddSubNode(p, parent_id) ==
    IF p = NoPlan THEN p
    ELSE IF FindNodeById(p, parent_id) # None
         THEN [par |-> Append(p.par, parent_id), st |-> Append(p.st, "pending")]
         ELSE p

\* ------------------------------------------------------------------------
\* Plan updater (agents/plan_updater.py)
\* ------------------------------------------------------------------------
RECURSIVE GetDepth(_, _, _, _)
RECURSIVE GetDepthChildren(_, _, _, _)
\* get_depth: depth-first walk from the root, -1 when the id is not found
GetDepth(p, node_id, current_node, depth) ==
    IF current_node = None THEN NOT_FOUND
    ELSE IF current_node = node_id THEN depth
    ELSE GetDepthChildren(p, node_id, Children(p, current_node), depth + 1)

GetDepthChildren(p, node_id, kids, depth) ==
    IF kids = <<>> THEN NOT_FOUND
    ELSE LET found_depth == GetDepth(p, node_id, Head(kids), depth)
         IN IF found_depth # NOT_FOUND THEN found_depth
            ELSE GetDepthChildren(p, node_id, Tail(kids), depth)

RECURSIVE GetDepthNoIncrement(_, _, _, _)
RECURSIVE GetDepthChildrenNoIncrement(_, _, _, _)
GetDepthNoIncrement(p, node_id, current_node, depth) ==
    IF current_node = None THEN NOT_FOUND
    ELSE IF current_node = node_id THEN depth
    ELSE GetDepthChildrenNoIncrement(p, node_id, Children(p, current_node), depth)

GetDepthChildrenNoIncrement(p, node_id, kids, depth) ==
    IF kids = <<>> THEN NOT_FOUND
    ELSE LET found_depth == GetDepthNoIncrement(p, node_id, Head(kids), depth)
         IN IF found_depth # NOT_FOUND THEN found_depth
            ELSE GetDepthChildrenNoIncrement(p, node_id, Tail(kids), depth)

\* mutant: get_depth recurses into the children without depth + 1
ParentDepthNoIncrement(p, parent_node_id) ==
    GetDepthNoIncrement(p, parent_node_id, IF p = NoPlan THEN None ELSE 1, 0)

\* parent_depth = get_depth(plan_manager.plan, parent_node_id)
ParentDepth(p, parent_node_id) ==
    GetDepth(p, parent_node_id, IF p = NoPlan THEN None ELSE 1, 0)

\* the basic validation: the proposal has title, summary and justification
HasKeys(proposal) == proposal # "invalid"

\* the decision parsed from the reply of the approval check: REJECT unless the
\* decision tag is found and says APPROVE
Decision(proposal) == IF proposal = "approve" THEN "APPROVE" ELSE "REJECT"

\* mutant: the loop ends at the first proposal it drops
RECURSIVE ProposalLoopBreaks(_, _, _, _)
ProposalLoopBreaks(acc, proposals, parent_node_id, i) ==
    IF i > Len(proposals) THEN acc
    ELSE IF HasKeys(proposals[i]) /\ Decision(proposals[i]) = "APPROVE"
    THEN ProposalLoopBreaks([p |-> AddSubNode(acc.p, parent_node_id),
                             kept |-> Append(acc.kept, i)],
                            proposals, parent_node_id, i + 1)
    ELSE acc

\* the loop over the proposals from the i-th on: a proposal with its keys whose
\* decision is APPROVE is appended under the parent, any other is skipped.
\* acc: the tree so far and the proposals appended so far, by position
RECURSIVE ProposalLoop(_, _, _, _)
ProposalLoop(acc, proposals, parent_node_id, i) ==
    IF i > Len(proposals) THEN acc
    ELSE ProposalLoop(IF HasKeys(proposals[i]) /\ Decision(proposals[i]) = "APPROVE"
                      THEN [p |-> AddSubNode(acc.p, parent_node_id),
                            kept |-> Append(acc.kept, i)]
                      ELSE acc,
                      proposals, parent_node_id, i + 1)

\* the tree after the loop
ApplyProposals(p, proposals, parent_node_id) ==
    ProposalLoop([p |-> p, kept |-> <<>>], proposals, parent_node_id, 1).p

\* the proposals PlanUpdaterAgent.execute appended, by position in the list
AppendedProposals(p, proposals, parent_node_id) ==
    IF proposals = <<>> THEN <<>>
    ELSE IF FindNodeById(p, parent_node_id) = None THEN <<>>
    ELSE IF ParentDepth(p, parent_node_id) >= MAX_PLAN_DEPTH THEN <<>>
    ELSE ProposalLoop([p |-> p, kept |-> <<>>], proposals, parent_node_id, 1).kept

\* mutant: the depth check compares with > instead of >=
PlanUpdaterExecuteOffByOne(p, proposals, parent_node_id) ==
    IF proposals = <<>> THEN p
    ELSE IF FindNodeById(p, parent_node_id) = None THEN p
    ELSE IF ParentDepth(p, parent_node_id) > MAX_PLAN_DEPTH THEN p
    ELSE ApplyProposals(p, proposals, parent_node_id)

\* PlanUpdaterAgent.execute
PlanUpdaterExecute(p, proposals, parent_node_id) ==
    IF proposals = <<>> THEN p
    ELSE IF FindNodeById(p, parent_node_id) = None THEN p
    ELSE IF ParentDepth(p, parent_node_id) >= MAX_PLAN_DEPTH THEN p
    ELSE ApplyProposals(p, proposals, parent_node_id)

\* ------------------------------------------------------------------------
\* Blackboard (tools/blackboard.py), called from several threads
\* ------------------------------------------------------------------------
\* the threads that call the blackboard: the thread that runs the stage graph
\* and the web server's event loop
Threads == {"engine", "web"}
NoThread == "nobody"
BoardSections == {"user_proposals"}
Keys == 1..MaxKeys
Values == {"v1", "v2"}
NoValue == "none"
BoardOps == {"post", "get", "get_section", "clear_section"}

EmptyItems == [k \in Keys |-> NoValue]
AbsentSection == [present |-> FALSE, items |-> EmptyItems]
IdleCall == [op |-> "none", section |-> "user_proposals", key |-> 1, value |-> NoValue,
             pc |-> "idle", found |-> FALSE, ret |-> NoValue]

\* a call that returned: its arguments and locals are gone, its result is kept
Returned(c, result) == [IdleCall EXCEPT !.op = c.op, !.ret = result]

\* post, as one step: the section is created when absent, then the key is written
PostEffect(data, section, key, value) ==
    [data EXCEPT ![section] = [present |-> TRUE,
                               items |-> [data[section].items EXCEPT ![key] = value]]]

\* clear_section, as one step: an existing section becomes empty
ClearEffect(data, section) ==
    IF data[section].present
    THEN [data EXCEPT ![section] = [present |-> TRUE, items |-> EmptyItems]]
    ELSE data

\* what a call does to the store when nothing runs beside it
CallEffect(data, c) ==
    CASE c.op = "post" -> PostEffect(data, c.section, c.key, c.value)
      [] c.op = "clear_section" -> ClearEffect(data, c.section)
      [] OTHER -> data

\* what a call returns when nothing runs beside it
CallResult(data, c) ==
    CASE c.op = "get" -> data[c.section].items[c.key]
      [] c.op = "get_section" -> data[c.section].items
      [] OTHER -> NoValue

\* a caller enters a Blackboard method
BBInvoke(t, op, section, key, value) ==
    /\ bb_call[t].pc = "idle"
    /\ bb_call' = [bb_call EXCEPT ![t] = [op |-> op, section |-> section, key |-> key,
                                          value |-> value, pc |-> "acquire",
                                          found |-> FALSE, ret |-> NoValue]]
    /\ UNCHANGED <<bb_data, bb_file, bb_lock, bb_lin, bb_expected>>

\* mutant: the method body runs without the lock
LockAvailableAlways == TRUE

\* with self._lock: the lock is free
LockAvailable == bb_lock = NoThread

\* with self._lock: entry; the call takes its place in the one-at-a-time order here
BBAcquire(t) ==
    /\ bb_call[t].pc = "acquire"
    /\ LockAvailable
    /\ bb_lock' = t
    /\ bb_call' = [bb_call EXCEPT ![t].pc = IF bb_call[t].op = "post" THEN "check" ELSE "body"]
    /\ bb_lin' = CallEffect(bb_lin, bb_call[t])
    /\ bb_expected' = [bb_expected EXCEPT ![t] = CallResult(bb_lin, bb_call[t])]
    /\ UNCHANGED <<bb_data, bb_file>>

\* post: if section not in self._data
BBPostCheck(t) ==
    /\ bb_call[t].pc = "check"
    /\ bb_call' = [bb_call EXCEPT ![t].found = bb_data[bb_call[t].section].present,
                                  ![t].pc = "create"]
    /\ UNCHANGED <<bb_data, bb_file, bb_lock, bb_lin, bb_expected>>

\* post: self._data[section] = {}
BBPostCreate(t) ==
    /\ bb_call[t].pc = "create"
    /\ bb_data' = IF bb_call[t].found THEN bb_data
                  ELSE [bb_data EXCEPT ![bb_call[t].section] =
                           [present |-> TRUE, items |-> EmptyItems]]
    /\ bb_call' = [bb_call EXCEPT ![t].pc = "write"]
    /\ UNCHANGED <<bb_file, bb_lock, bb_lin, bb_expected>>

\* post: self._data[section][key] = value, _save_data, and the lock is released
BBPostWrite(t) ==
    /\ bb_call[t].pc = "write"
    /\ LET c == bb_call[t]
           written == [bb_data EXCEPT ![c.section].items[c.key] = c.value]
       IN /\ bb_data' = written
          /\ bb_file' = written
    /\ bb_lock' = NoThread
    /\ bb_call' = [bb_call EXCEPT ![t] = Returned(bb_call[t], NoValue)]
    /\ UNCHANGED <<bb_lin, bb_expected>>

\* get, get_section and clear_section: the body under the lock, and the release
BBBody(t) ==
    /\ bb_call[t].pc = "body"
    /\ LET c == bb_call[t] IN
         CASE c.op = "get" ->
                /\ bb_call' = [bb_call EXCEPT ![t] =
                                   Returned(c, bb_data[c.section].items[c.key])]
                /\ UNCHANGED <<bb_data, bb_file>>
           [] c.op = "get_section" ->
                /\ bb_call' = [bb_call EXCEPT ![t] =
                                   Returned(c, bb_data[c.section].items)]
                /\ UNCHANGED <<bb_data, bb_file>>
           [] OTHER ->
                /\ bb_call' = [bb_call EXCEPT ![t] = Returned(c, NoValue)]
                /\ IF bb_data[c.section].present
                   THEN /\ bb_data' = [bb_data EXCEPT ![c.section].items = EmptyItems]
                        /\ bb_file' = bb_data'
                   ELSE UNCHANGED <<bb_data, bb_file>>
    /\ bb_lock' = NoThread
    /\ UNCHANGED <<bb_lin, bb_expected>>

\* ------------------------------------------------------------------------
\* The expert debate of research_node (orchestrator.py)
\* ------------------------------------------------------------------------
ExpertIds == 1..MaxExperts
\* what expert w returns in round k
Output(w, k) == <<w, k>>
NoWorker == [st |-> "none", seen |-> <<>>]
QueuedWorker == [st |-> "queued", seen |-> <<>>]

\* executor.map: one call per expert is handed to the pool
SubmitRound(n) == [w \in ExpertIds |-> IF w <= n THEN QueuedWorker ELSE NoWorker]

\* a pool thread picks the call up; ExpertAgent.execute formats the
\* discussion_history list it was handed, as the list is at that moment
WorkerStart(w) ==
    /\ debate_pc = "round"
    /\ worker[w].st = "queued"
    /\ worker' = [worker EXCEPT ![w] = [st |-> "running", seen |-> discussion_history]]
    /\ UNCHANGED <<debate_pc, debate_i, debate_experts, discussion_history,
                   debate_transcript, debate_done>>

\* the call returns the expert's contribution
WorkerReturn(w) ==
    /\ debate_pc = "round"
    /\ worker[w].st = "running"
    /\ worker' = [worker EXCEPT ![w].st = "returned"]
    /\ debate_done' = [debate_done EXCEPT ![debate_i] = @ + 1]
    /\ UNCHANGED <<debate_pc, debate_i, debate_experts, discussion_history, debate_transcript>>

\* the call raises: ExpertAgent.execute catches nothing
WorkerRaise(w) ==
    /\ debate_pc = "round"
    /\ worker[w].st = "running"
    /\ worker' = [worker EXCEPT ![w].st = "raised"]
    /\ UNCHANGED <<debate_pc, debate_i, debate_experts, discussion_history,
                   debate_transcript, debate_done>>

\* mutant: the round is collected as soon as one call has returned
RoundCompleteAny == \E w \in 1..debate_experts : worker[w].st = "returned"

\* list(executor.map(...)) has every expert's result
RoundComplete == \A w \in 1..debate_experts : worker[w].st = "returned"

RECURSIVE RoundResponses(_, _, _)
\* the results of round k in the order of the experts, from expert w on
RoundResponses(wk, w, k) ==
    IF w > MaxExperts THEN <<>>
    ELSE (IF wk[w].st = "returned" THEN <<Output(w, k)>> ELSE <<>>)
         \o RoundResponses(wk, w + 1, k)

\* mutant: the history is replaced by the round's results
ReplacedHistory(history, round_responses) == round_responses

\* discussion_history.extend(round_responses)
ExtendedHistory(history, round_responses) == history \o round_responses

\* research_node, step 4 up to the first round's calls
DebateBegin ==
    /\ debate_pc = "idle"
    /\ \E n \in 1..MaxExperts :
          /\ debate_experts' = n
          /\ worker' = SubmitRound(n)
    /\ discussion_history' = <<>>
    /\ debate_i' = 1
    /\ debate_pc' = "round"
    /\ UNCHANGED <<debate_transcript, debate_done>>

\* the round's results are in: extend the history, post it, next round
DebateCollect ==
    /\ debate_pc = "round"
    /\ RoundComplete
    /\ discussion_history' = ExtendedHistory(discussion_history,
                                             RoundResponses(worker, 1, debate_i))
    /\ debate_transcript' = discussion_history'
    /\ IF debate_i < DEBATE_ROUNDS
          THEN /\ debate_i' = debate_i + 1
               /\ worker' = SubmitRound(debate_experts)
               /\ UNCHANGED debate_pc
          ELSE /\ debate_pc' = "finished"
               /\ worker' = [w \in ExpertIds |-> NoWorker]
               /\ UNCHANGED debate_i
    /\ UNCHANGED <<debate_experts, debate_done>>

\* list(executor.map(...)) reaches a call that raised: the calls not yet
\* picked up are cancelled, the pool waits for the running ones, and the
\* exception leaves research_node
DebateAbort ==
    /\ debate_pc = "round"
    /\ \E w \in 1..debate_experts :
          /\ worker[w].st = "raised"
          /\ \A v \in 1..(w - 1) : worker[v].st = "returned"
    /\ \A w \in 1..debate_experts : worker[w].st # "running"
    /\ worker' = [w \in ExpertIds |->
                     IF worker[w].st = "queued" THEN [worker[w] EXCEPT !.st = "cancelled"]
                     ELSE worker[w]]
    /\ debate_pc' = "raised"
    /\ UNCHANGED <<debate_i, debate_experts, discussion_history, debate_transcript, debate_done>>

\* ------------------------------------------------------------------------
\* The retrieval fan-out (agents/retrieval_agent.py)
\* ------------------------------------------------------------------------
\* two jobs per search query: job 2q - 1 asks the RAG store, job 2q asks arXiv
JobIds == 1..(2 * MaxQueries)
DocKeys == 1..MaxDocKeys
\* the copy of document key that job j returns
Doc(key, j) == <<key, j>>
\* metadata.doc_id: the sources' documents with an odd number carry one, those
\* with an even number carry none
DocId(doc) == IF doc[1] % 2 = 1 THEN doc[1] ELSE None
\* doc['content']: document 2c has the content of document 2c - 1
Content(doc) == (doc[1] + 1) \div 2

\* mutant: every document is keyed by its content
DocKeyByContent(doc) == <<"content", Content(doc)>>

\* the key of unique_docs: the doc_id when there is one, else the content
DocKey(doc) == IF DocId(doc) # None THEN <<"doc_id", DocId(doc)>>
               ELSE <<"content", Content(doc)>>

FromArxiv(doc) == doc[2] % 2 = 0
NoJob == [st |-> "none", docs |-> <<>>]

\* the result lists a job may return: the first m documents, in its own copy
JobResults(j) == {[key \in 1..m |-> Doc(key, j)] : m \in 0..MaxDocKeys}

\* unique_docs[key] = doc: a known key keeps its place and takes the new
\* document, a new key goes last
PutDoc(unique_docs, doc) ==
    IF \E i \in 1..Len(unique_docs) : DocKey(unique_docs[i]) = DocKey(doc)
    THEN [i \in 1..Len(unique_docs) |->
             IF DocKey(unique_docs[i]) = DocKey(doc) THEN doc ELSE unique_docs[i]]
    ELSE Append(unique_docs, doc)

RECURSIVE Deduplicate(_, _)
\* step 3, from the i-th raw result on
Deduplicate(docs, unique_docs) ==
    IF docs = <<>> THEN unique_docs
    ELSE Deduplicate(Tail(docs), PutDoc(unique_docs, Head(docs)))

\* steps 1 and 2 up to the submission of the jobs
RetrievalBegin ==
    /\ ret_pc = "idle"
    /\ \E q \in 1..MaxQueries :
          job' = [j \in JobIds |-> IF j <= 2 * q THEN [st |-> "pending", docs |-> <<>>]
                                   ELSE NoJob]
    /\ ret_pc' = "collect"
    /\ ret_collected' = {}
    /\ all_retrieved_docs' = <<>>
    /\ UNCHANGED <<final_results, rag_added>>

\* a pool thread finishes job j with a list of documents
JobSucceeds(j) ==
    /\ ret_pc = "collect"
    /\ job[j].st = "pending"
    /\ \E docs \in JobResults(j) : job' = [job EXCEPT ![j] = [st |-> "ok", docs |-> docs]]
    /\ UNCHANGED <<ret_pc, ret_collected, all_retrieved_docs, final_results, rag_added>>

\* job j raises
JobFails(j) ==
    /\ ret_pc = "collect"
    /\ job[j].st = "pending"
    /\ job' = [job EXCEPT ![j].st = "failed"]
    /\ UNCHANGED <<ret_pc, ret_collected, all_retrieved_docs, final_results, rag_added>>

\* mutant: a failed job discards what was collected
AfterFailedJobEmpty(docs) == <<>>

\* the except branch of the collection loop: nothing but a message
AfterFailedJob(docs) == docs

\* as_completed yields a finished job: its results are appended, its
\* exception is caught
JobCollect(j) ==
    /\ ret_pc = "collect"
    /\ job[j].st \in {"ok", "failed"}
    /\ j \notin ret_collected
    /\ ret_collected' = ret_collected \cup {j}
    /\ all_retrieved_docs' = IF job[j].st = "ok" THEN all_retrieved_docs \o job[j].docs
                             ELSE AfterFailedJob(all_retrieved_docs)
    /\ UNCHANGED <<ret_pc, job, final_results, rag_added>>

\* every future was yielded: steps 3 and 4 and the return; each add_document
\* of step 4 may fail, which is caught
RetrievalFinish ==
    /\ ret_pc = "collect"
    /\ \A j \in JobIds : job[j].st # "none" => j \in ret_collected
    /\ final_results' = Deduplicate(all_retrieved_docs, <<>>)
    /\ \E added \in SUBSET {final_results'[i] : i \in 1..Len(final_results')} :
          /\ \A doc \in added : FromArxiv(doc)
          /\ rag_added' = added
    /\ ret_pc' = "done"
    /\ UNCHANGED <<job, ret_collected, all_retrieved_docs>>

\* ------------------------------------------------------------------------
\* User proposals: add_new_task (status_server.py) and the user-proposal
\* steps of exploration_node (orchestrator.py), each on its own thread
\* ------------------------------------------------------------------------
TaskData == "v1"

\* add_new_task while a run is active: a fresh task id, then the post
AddTaskPost ==
    /\ web_task = None
    /\ next_task < MaxKeys
    /\ next_task' = next_task + 1
    /\ web_task' = next_task'
    /\ BBInvoke("web", "post", "user_proposals", next_task', TaskData)
    /\ UNCHANGED <<expl_pc, user_proposals, accepted, processed>>

\* add_new_task: the post returned, the request is answered with success
AddTaskReturn ==
    /\ web_task # None
    /\ bb_call["web"].pc = "idle"
    /\ accepted' = accepted \cup {web_task}
    /\ web_task' = None
    /\ UNCHANGED <<boardVars, expl_pc, user_proposals, next_task, processed>>

\* exploration_node, step 2: get_section("user_proposals") is called
ExplorationRead ==
    /\ expl_pc = "idle"
    /\ BBInvoke("engine", "get_section", "user_proposals", 1, NoValue)
    /\ expl_pc' = "read"
    /\ UNCHANGED <<user_proposals, web_task, next_task, accepted, processed>>

\* exploration_node: the section is read; if it holds proposals,
\* clear_section("user_proposals") is called
ExplorationClear ==
    /\ expl_pc = "read"
    /\ bb_call["engine"].pc = "idle"
    /\ user_proposals' = {k \in Keys : bb_call["engine"].ret[k] # NoValue}
    /\ IF user_proposals' # {}
       THEN /\ BBInvoke("engine", "clear_section", "user_proposals", 1, NoValue)
            /\ expl_pc' = "clear"
       ELSE /\ expl_pc' = "update"
            /\ UNCHANGED boardVars
    /\ UNCHANGED <<web_task, next_task, accepted, processed>>

\* exploration_node, steps 3 and 4: the proposals read go to the plan updater
ExplorationUpdate ==
    /\ expl_pc \in {"clear", "update"}
    /\ bb_call["engine"].pc = "idle"
    /\ processed' = [k \in Keys |-> IF k \in user_proposals THEN processed[k] + 1
                                    ELSE processed[k]]
    /\ user_proposals' = {}
    /\ expl_pc' = "idle"
    /\ UNCHANGED <<boardVars, web_task, next_task, accepted>>

\* ------------------------------------------------------------------------
\* The stage graph (orchestrator.py)
\* ------------------------------------------------------------------------
\* the keys a blackboard section or a history may have
NodeSpace == 1..(MaxNodes + MaxDeepNodes + MaxStoreNodes)

NoDraft == <<>>
Draft(n, k) == <<n, k>>
\* the text the router commits when no best draft was tracked
ErrorMessage == <<"ERROR: Could not generate acceptable content">>

NoFeedback == [kind |-> "none", node |-> None]
PlanFeedback == [kind |-> "plan", node |-> None]
NoContentFeedback == [kind |-> "no_content", node |-> None]
\* the feedback CriticAgent.execute makes up when it cannot parse the reply
ParseFailureFeedback == [kind |-> "unparsable", node |-> None]
DraftFeedback(n) == [kind |-> "draft", node |-> n]

\* no debate has run yet
NothingHanded == [fb |-> NoFeedback, task |-> None]
\* no draft was evaluated yet
NotEvaluated == [kind |-> "not_evaluated", node |-> None]
\* parse_llm_json_output was not called yet
NotParsed == [found |-> FALSE, value |-> <<>>]

\* an artifact key nobody has posted since the section was cleared
NotProduced == [task |-> None, attempt |-> 0]
\* an artifact posted while attempt k of task n was worked on
ProducedIn(n, k) == [task |-> n, attempt |-> k]
\* the artifacts among `tags` that exist, as a stage reads them
ReadOf(tags) == tags \ {NotProduced}
\* the attempt that wrote a draft: writing_node posts it under the task's id
DraftOrigin(draft) == IF draft = NoDraft THEN NotProduced ELSE ProducedIn(draft[1], draft[2])

\* mutant: research_node leaves the operational sections as they are
KeepSections(artifacts) == artifacts

\* research_node's clear_section calls on retrieved_data and expert_discussion
ClearSections(artifacts) == [a \in DOMAIN artifacts |-> NotProduced]

\* the task research_feedback is about, once research_feedback has its new value
FeedbackTaskAfter(task, fb) == IF fb = NoFeedback THEN None ELSE task

NoExploration == [node |-> None, approved |-> 0, added |-> 0, kept |-> <<>>]

RECURSIVE CountApproved(_)
CountApproved(proposals) ==
    IF proposals = <<>> THEN 0
    ELSE (IF Head(proposals) = "approve" THEN 1 ELSE 0) + CountApproved(Tail(proposals))

RECURSIVE SeqsUpTo(_, _)
SeqsUpTo(S, n) ==
    IF n = 0 THEN {<<>>}
    ELSE LET shorter == SeqsUpTo(S, n - 1)
         IN shorter \cup {Append(s, x) : s \in {t \in shorter : Len(t) = n - 1}, x \in S}

\* the proposal lists an Exploration stage may have to process (AI + user)
ProposalLists == SeqsUpTo(ProposalKinds, MaxProposals)

Init ==
    /\ plan = NoPlan
    /\ pc = "planning"
    /\ last_completed_node = "none"
    /\ current_plan_node_id = None
    /\ feedback = [rating |-> 0, fb |-> NoFeedback]
    /\ planning_feedback = NoFeedback
    /\ research_feedback = NoFeedback
    /\ research_retry_count = 0
    /\ best_draft_so_far = NoDraft
    /\ best_rating_so_far = 0
    /\ retrieved_data = "absent"
    /\ expert_discussion = FALSE
    /\ output_draft = [n \in NodeSpace |-> NoDraft]
    /\ final_content = [n \in NodeSpace |-> NoDraft]
    /\ final_summary = "none"
    /\ final_order = <<>>
    /\ summary_input = <<>>
    /\ summary_calls = 0
    /\ feedback_task = None
    /\ experts_feedback = NothingHanded
    /\ critic_previous_feedback = NotEvaluated
    /\ produced_by = [docs |-> NotProduced, transcript |-> NotProduced]
    /\ stage_read = {}
    /\ evals = [n \in NodeSpace |-> <<>>]
    /\ attempts = [n \in NodeSpace |-> 0]
    /\ route = "none"
    /\ lastExploration = NoExploration
    /\ storeRet = [op |-> "none", arg |-> None, val |-> None]
    /\ plan_file = NoPlan
    /\ transcript_file = <<>>
    /\ saving = "none"
    /\ status_seen = NothingSeen
    /\ held = EmptyItems
    /\ snapshot = EmptyItems
    /\ shared = {}
    /\ llm_output = <<>>
    /\ parsed = NotParsed
    /\ is_running = FALSE
    /\ run_thread = [t \in 1..MaxStartRequests |-> "none"]
    /\ last_response = 0
    /\ bb_data = [sec \in BoardSections |-> AbsentSection]
    /\ bb_file = [sec \in BoardSections |-> AbsentSection]
    /\ bb_lock = NoThread
    /\ bb_call = [t \in Threads |-> IdleCall]
    /\ bb_lin = [sec \in BoardSections |-> AbsentSection]
    /\ bb_expected = [t \in Threads |-> NoValue]
    /\ debate_pc = "idle"
    /\ debate_i = 0
    /\ debate_experts = 0
    /\ discussion_history = <<>>
    /\ worker = [w \in ExpertIds |-> NoWorker]
    /\ debate_transcript = <<>>
    /\ debate_done = [k \in 1..DEBATE_ROUNDS |-> 0]
    /\ ret_pc = "idle"
    /\ job = [j \in JobIds |-> NoJob]
    /\ ret_collected = {}
    /\ all_retrieved_docs = <<>>
    /\ final_results = <<>>
    /\ rag_added = {}
    /\ expl_pc = "idle"
    /\ user_proposals = {}
    /\ web_task = None
    /\ next_task = 0
    /\ accepted = {}
    /\ processed = [k \in Keys |-> 0]

\* planning_node, the planner's reply parsed: create_plan replaces the tree
\* (initial: the numbers of children the planner may give the root)
PlanningWith(initial) ==
    /\ pc = "planning"
    /\ \E k \in initial : plan' = CreatePlan(k)
    /\ last_completed_node' = "planning_node"
    /\ pc' = "critique"
    /\ UNCHANGED <<current_plan_node_id, feedback, planning_feedback, research_feedback,
                   research_retry_count, best_draft_so_far, best_rating_so_far,
                   retrieved_data, expert_discussion, output_draft, final_content,
                   final_summary, evals, attempts, route, lastExploration, storeRet, reportVars,
                   feedbackVars, provenanceVars, auxVars>>
    /\ plan_file' = plan'

\* mutant: a failed Planning stage loses the tree
PlanAfterFailedReplyLost(p) == NoPlan

\* PlannerAgent.execute raises before create_plan assigns the new tree
PlanAfterFailedReply(p) == p

\* planning_node, the planner's reply not parsed: PlannerAgent.execute raises
PlanningFails ==
    /\ pc = "planning"
    /\ pc' = "failed"
    /\ plan' = PlanAfterFailedReply(plan)
    /\ UNCHANGED <<last_completed_node, current_plan_node_id, feedback,
                   planning_feedback, research_feedback,
                   research_retry_count, best_draft_so_far, best_rating_so_far,
                   retrieved_data, expert_discussion, output_draft, final_content,
                   final_summary, evals, attempts, route, lastExploration, storeRet, reportVars,
                   feedbackVars, provenanceVars, auxVars>>
    /\ UNCHANGED plan_file

\* research_node (experts: whether some expert is created; docs: what retrieval yields)
ResearchWith(experts, docs) ==
    /\ pc = "research"
    /\ pc' = "writing"
    /\ \E next_node \in {GetNextPendingNode(plan)} :
       IF next_node = None
       THEN /\ current_plan_node_id' = None
            /\ UNCHANGED <<plan, last_completed_node, research_feedback, best_draft_so_far,
                           best_rating_so_far, retrieved_data, expert_discussion,
                           output_draft, attempts, lastExploration>>
       ELSE /\ current_plan_node_id' = next_node
            /\ last_completed_node' = "research_node"
            /\ output_draft' = [n \in NodeSpace |-> NoDraft]
            /\ best_draft_so_far' = NoDraft
            /\ best_rating_so_far' = 0
            /\ attempts' = [attempts EXCEPT ![next_node] = @ + 1]
            /\ lastExploration' = NoExploration
            /\ \E some_expert \in experts :
                 IF ~some_expert
                 THEN \* no expert was created: the node is completed at once
                      /\ plan' = UpdateNodeStatus(
                                    UpdateNodeStatus(plan, next_node, "in-progress"),
                                    next_node, "completed")
                      /\ retrieved_data' = "absent"
                      /\ expert_discussion' = FALSE
                      /\ UNCHANGED research_feedback
                 ELSE /\ plan' = UpdateNodeStatus(plan, next_node, "in-progress")
                      /\ retrieved_data' \in docs
                      /\ expert_discussion' = TRUE
                      /\ research_feedback' = NoFeedback
    /\ UNCHANGED <<feedback, planning_feedback, research_retry_count, final_content,
                   final_summary, evals, route, storeRet, reportVars,
                   critic_previous_feedback, auxVars>>
    /\ experts_feedback' = IF GetNextPendingNode(plan) # None /\ expert_discussion'
                           THEN [fb |-> research_feedback, task |-> feedback_task]
                           ELSE experts_feedback
    /\ feedback_task' = FeedbackTaskAfter(feedback_task, research_feedback')
    /\ plan_file' = PlanFileAfter(plan_file, plan, plan')
    /\ produced_by' =
          IF GetNextPendingNode(plan) = None THEN produced_by
          ELSE IF ~expert_discussion' THEN ClearSections(produced_by)
          ELSE [a \in DOMAIN produced_by |->
                   ProducedIn(current_plan_node_id', attempts'[current_plan_node_id'])]
    /\ stage_read' = {}

\* writing_node
Writing ==
    /\ pc = "writing"
    /\ pc' = "exploration"
    /\ IF current_plan_node_id = None
       THEN UNCHANGED <<last_completed_node, output_draft>>
       ELSE /\ last_completed_node' = "writing_node"
            /\ IF ~expert_discussion
               THEN UNCHANGED output_draft
               ELSE output_draft' = [output_draft EXCEPT ![current_plan_node_id] =
                                        Draft(current_plan_node_id,
                                              attempts[current_plan_node_id])]
    /\ UNCHANGED <<plan, current_plan_node_id, feedback, planning_feedback, research_feedback,
                   research_retry_count, best_draft_so_far, best_rating_so_far,
                   retrieved_data, expert_discussion, final_content, final_summary,
                   evals, attempts, route, lastExploration, storeRet, reportVars,
                   feedbackVars, auxVars>>
    /\ UNCHANGED <<plan_file, produced_by>>
    /\ stage_read' = IF current_plan_node_id = None THEN stage_read
                     ELSE stage_read \cup ReadOf({produced_by.transcript})

\* exploration_node (lists: the proposal lists it may get; limit: bound on the tree)
ExplorationWith(lists, limit) ==
    /\ pc = "exploration"
    /\ pc' = "critique"
    /\ IF current_plan_node_id = None
       THEN UNCHANGED <<plan, last_completed_node, lastExploration>>
       ELSE /\ last_completed_node' = "exploration_node"
            /\ IF output_draft[current_plan_node_id] = NoDraft \/ retrieved_data # "docs"
               THEN UNCHANGED <<plan, lastExploration>>
               ELSE \E proposals \in lists :
                      LET updated == PlanUpdaterExecute(plan, proposals, current_plan_node_id) IN
                        /\ Len(updated.par) <= limit
                        /\ plan' = updated
                        /\ lastExploration' = [node |-> current_plan_node_id,
                                               approved |-> CountApproved(proposals),
                                               added |-> Len(updated.par) - Len(plan.par),
                                               kept |-> AppendedProposals(plan, proposals,
                                                                          current_plan_node_id)]
    /\ UNCHANGED <<current_plan_node_id, feedback, planning_feedback, research_feedback,
                   research_retry_count, best_draft_so_far, best_rating_so_far,
                   retrieved_data, expert_discussion, output_draft, final_content,
                   final_summary, evals, attempts, route, storeRet, reportVars,
                   feedbackVars, produced_by, auxVars>>
    /\ plan_file' = PlanFileAfter(plan_file, plan, plan')
    /\ stage_read' = IF current_plan_node_id = None THEN stage_read
                     ELSE stage_read \cup ReadOf({DraftOrigin(output_draft[current_plan_node_id]),
                                                  produced_by.docs})

\* CriticAgent.execute: the evaluation it returns for a reply it can use
CriticExecute(reply, r, fb) ==
    IF reply = "evaluation" THEN [rating |-> r, fb |-> fb]
    ELSE [rating |-> 0, fb |-> ParseFailureFeedback]

\* critique_node (plan_ratings, draft_ratings: the scores the critic may give;
\* replies: the kinds of reply the evaluation strategy may send)
CritiqueWith(plan_ratings, draft_ratings, replies) ==
    /\ pc = "critique"
    /\ LET content_to_review ==
               IF last_completed_node = "planning_node" THEN <<"plan">>
               ELSE IF last_completed_node \in {"writing_node", "exploration_node"}
                       /\ current_plan_node_id # None
                    THEN output_draft[current_plan_node_id]
                    ELSE NoDraft
       IN IF content_to_review = NoDraft
          THEN /\ pc' = "router"
               /\ feedback' = [rating |-> 0, fb |-> NoContentFeedback]
               /\ UNCHANGED <<planning_feedback, best_draft_so_far,
                              best_rating_so_far, evals>>
          ELSE \E reply \in replies :
               IF reply = "names_the_keys"
               THEN \* the critic returns the string or array itself and
                    \* feedback.get raises: the run ends
                    /\ pc' = "critique_raised"
                    /\ UNCHANGED <<feedback, planning_feedback, best_draft_so_far,
                                   best_rating_so_far, evals>>
               ELSE /\ pc' = "router"
                    /\ IF last_completed_node = "planning_node"
                       THEN /\ \E r \in plan_ratings :
                                  feedback' = CriticExecute(reply, r, PlanFeedback)
                            /\ planning_feedback' = feedback'.fb
                            /\ UNCHANGED <<best_draft_so_far, best_rating_so_far, evals>>
                       ELSE \E r \in draft_ratings :
                              /\ feedback' = CriticExecute(reply, r,
                                                  DraftFeedback(current_plan_node_id))
                              /\ evals' = [evals EXCEPT ![current_plan_node_id] =
                                               Append(@, <<content_to_review, feedback'.rating>>)]
                              /\ IF feedback'.rating > best_rating_so_far
                                 THEN /\ best_draft_so_far' = content_to_review
                                      /\ best_rating_so_far' = feedback'.rating
                                 ELSE UNCHANGED <<best_draft_so_far, best_rating_so_far>>
                              /\ UNCHANGED planning_feedback
    /\ UNCHANGED <<plan, last_completed_node, current_plan_node_id, research_feedback,
                   research_retry_count, retrieved_data, expert_discussion, output_draft,
                   final_content, final_summary, attempts, route,
                   lastExploration, storeRet, reportVars, feedback_task,
                   experts_feedback, auxVars>>
    /\ critic_previous_feedback' =
          IF /\ last_completed_node \in {"writing_node", "exploration_node"}
             /\ current_plan_node_id # None
             /\ output_draft[current_plan_node_id] # NoDraft
          THEN research_feedback
          ELSE critic_previous_feedback
    /\ UNCHANGED <<plan_file, produced_by>>
    /\ stage_read' = IF /\ last_completed_node \in {"writing_node", "exploration_node"}
                        /\ current_plan_node_id # None
                     THEN stage_read \cup ReadOf({DraftOrigin(output_draft[current_plan_node_id])})
                     ELSE stage_read

\* mutant: every commit routes to Summarize
AfterCommitSummarize(p) == "summarize"

\* after a commit: the next pending task if one exists, else Summarize
AfterCommit(p) == IF GetNextPendingNode(p) # None THEN "research" ELSE "summarize"

\* mutant: a commit puts the node back to pending
CommittedStatusPending == "pending"

\* the status the router gives the node it commits
CommittedStatus == "completed"

\* mutant: the plan gate approves only above its threshold
PlanApprovedAbove(rating) == rating > PLAN_APPROVAL_THRESHOLD

\* after_critique_router: the plan gate approves
PlanApproved(rating) == rating >= PLAN_APPROVAL_THRESHOLD

\* mutant: the draft gate approves from its threshold on
DraftApprovedFrom(rating) == rating >= RESEARCH_APPROVAL_THRESHOLD

\* after_critique_router: the draft gate approves
DraftApproved(rating) == rating > RESEARCH_APPROVAL_THRESHOLD

\* after_critique_router, plan gate
RouterPlan ==
    /\ IF PlanApproved(feedback.rating)
       THEN /\ planning_feedback' = NoFeedback
            /\ pc' = "research"
            /\ route' = "plan_approved"
       ELSE /\ pc' = "planning"
            /\ route' = "plan_rejected"
            /\ UNCHANGED planning_feedback
    /\ UNCHANGED <<plan, research_feedback, research_retry_count, best_draft_so_far,
                   best_rating_so_far, final_content>>

\* the tree after the router marked the current node
CommittedPlan ==
    IF current_plan_node_id # None
    THEN UpdateNodeStatus(plan, current_plan_node_id, CommittedStatus)
    ELSE plan

\* after_critique_router, draft approved
RouterApprove ==
    /\ route' = "approved"
    /\ IF current_plan_node_id # None
       THEN /\ plan' = CommittedPlan
            /\ IF output_draft[current_plan_node_id] # NoDraft
               THEN final_content' = [final_content EXCEPT ![current_plan_node_id] =
                                          output_draft[current_plan_node_id]]
               ELSE UNCHANGED final_content
       ELSE UNCHANGED <<plan, final_content>>
    /\ research_retry_count' = 0
    /\ research_feedback' = NoFeedback
    /\ best_draft_so_far' = NoDraft
    /\ best_rating_so_far' = 0
    /\ pc' = AfterCommit(CommittedPlan)
    /\ UNCHANGED planning_feedback

\* mutant: the retry counter is not incremented on a rejection
RetryCountAfterRejectionStuck == research_retry_count

\* after_critique_router: the retry counter after a rejection
RetryCountAfterRejection == research_retry_count + 1

\* after_critique_router, draft rejected and the retry limit reached
RouterForceCommit ==
    /\ route' = "forced"
    /\ IF current_plan_node_id # None
       THEN /\ plan' = CommittedPlan
            /\ final_content' = [final_content EXCEPT ![current_plan_node_id] =
                                     IF best_draft_so_far # NoDraft THEN best_draft_so_far
                                     ELSE ErrorMessage]
       ELSE UNCHANGED <<plan, final_content>>
    /\ research_retry_count' = 0
    /\ research_feedback' = NoFeedback
    /\ best_draft_so_far' = NoDraft
    /\ best_rating_so_far' = 0
    /\ pc' = AfterCommit(CommittedPlan)
    /\ UNCHANGED planning_feedback

\* after_critique_router, draft rejected and the retry limit not reached
RouterRetry ==
    /\ route' = "retry"
    /\ research_retry_count' = RetryCountAfterRejection
    /\ research_feedback' = feedback.fb
    /\ pc' = "research"
    /\ UNCHANGED <<plan, planning_feedback, best_draft_so_far, best_rating_so_far,
                   final_content>>

\* after_critique_router, neither gate: the run ends without a summary
RouterEnd ==
    /\ route' = "end"
    /\ pc' = "ended"
    /\ UNCHANGED <<plan, planning_feedback, research_feedback, research_retry_count,
                   best_draft_so_far, best_rating_so_far, final_content>>

\* blackboard.post on section final_content: a new key goes last in the
\* section, a known key keeps its place
PostedOrder(order, before, after) ==
    IF \E n \in NodeSpace : before[n] = NoDraft /\ after[n] # NoDraft
    THEN Append(order, CHOOSE n \in NodeSpace : before[n] = NoDraft /\ after[n] # NoDraft)
    ELSE order

\* mutant: the router takes only writing_node for the research loop
ResearchLoopWritingOnly(last) == last = "writing_node"

\* after_critique_router: the stages whose critique belongs to the research loop
ResearchLoop(last) == last \in {"writing_node", "exploration_node"}

\* after_critique_router
Router ==
    /\ pc = "router"
    /\ IF last_completed_node = "planning_node" THEN RouterPlan
       ELSE IF ResearchLoop(last_completed_node)
            THEN IF DraftApproved(feedback.rating) THEN RouterApprove
                 ELSE IF RetryCountAfterRejection > MAX_RESEARCH_RETRIES
                      THEN RouterForceCommit
                      ELSE RouterRetry
            ELSE RouterEnd
    /\ final_order' = PostedOrder(final_order, final_content, final_content')
    /\ UNCHANGED <<last_completed_node, current_plan_node_id, feedback, retrieved_data,
                   expert_discussion, output_draft, final_summary, evals,
                   attempts, lastExploration, storeRet, summary_input, summary_calls,
                   experts_feedback, critic_previous_feedback, provenanceVars, auxVars>>
    /\ feedback_task' = IF route' = "retry" THEN current_plan_node_id
                        ELSE FeedbackTaskAfter(feedback_task, research_feedback')
    /\ plan_file' = PlanFileAfter(plan_file, plan, plan')

\* the values of section final_content, in the order of the section's keys
SectionValues(order, section) == [i \in 1..Len(order) |-> section[order[i]]]

\* summarize_node
Summarize ==
    /\ pc = "summarize"
    /\ pc' = "done"
    /\ LET full_text == SectionValues(final_order, final_content) IN
       IF full_text = <<>>
       THEN /\ final_summary' = "no_content"
            /\ UNCHANGED <<summary_input, summary_calls>>
       ELSE /\ final_summary' = "summary"
            /\ summary_input' = full_text
            /\ summary_calls' = summary_calls + 1
    /\ UNCHANGED <<plan, last_completed_node, current_plan_node_id, feedback,
                   planning_feedback, research_feedback, research_retry_count,
                   best_draft_so_far, best_rating_so_far, retrieved_data,
                   expert_discussion, output_draft, final_content, final_order, evals,
                   attempts, route, lastExploration, storeRet, plan_file,
                   feedbackVars, provenanceVars, auxVars>>

\* ---- the engine on every input of the bounded sets ----
Planning == PlanningWith(0..MaxInitChildren)
Research == ResearchWith(BOOLEAN, {"empty", "docs"})
Exploration == ExplorationWith(ProposalLists, MaxNodes)
Critique == CritiqueWith(PlanRatings, DraftRatings, {"evaluation"})

Next ==
    \/ Planning
    \/ PlanningFails
    \/ Critique
    \/ Router
    \/ Research
    \/ Writing
    \/ Exploration
    \/ Summarize

Spec == Init /\ [][Next]_vars

\* the stage graph runs each stage as soon as the previous one returned
FairSpec == Spec /\ WF_vars(Next)

\* ---- the engine on runs that grow a deep tree: every draft is approved,
\* ---- experts and documents are always found
DeepPlanning == PlanningWith(0..MaxInitChildren)
DeepResearch == ResearchWith({TRUE}, {"docs"})
DeepExploration == ExplorationWith(ProposalLists, MaxDeepNodes)
DeepCritique ==
    CritiqueWith({PLAN_APPROVAL_THRESHOLD}, {RESEARCH_APPROVAL_THRESHOLD + 1}, {"evaluation"})

DeepNext ==
    \/ DeepPlanning
    \/ DeepCritique
    \/ Router
    \/ DeepResearch
    \/ Writing
    \/ DeepExploration
    \/ Summarize

DeepSpec == Init /\ [][DeepNext]_vars

\* ---- the engine at the thresholds of the two gates, with every kind of
\* ---- reply of the evaluation strategy
GatePlanRatings == {PLAN_APPROVAL_THRESHOLD - 1, PLAN_APPROVAL_THRESHOLD}
GateDraftRatings == {0, RESEARCH_APPROVAL_THRESHOLD, RESEARCH_APPROVAL_THRESHOLD + 1}

GatePlanning == PlanningWith(0..MaxInitChildren)
GateResearch == ResearchWith(BOOLEAN, {"empty", "docs"})
GateExploration == ExplorationWith({<<>>, <<"approve">>}, MaxNodes)
GateCritique == CritiqueWith(GatePlanRatings, GateDraftRatings, CriticReplies)

GateNext ==
    \/ GatePlanning
    \/ PlanningFails
    \/ GateCritique
    \/ Router
    \/ GateResearch
    \/ Writing
    \/ GateExploration
    \/ Summarize

GateSpec == Init /\ [][GateNext]_vars

\* ---- the plan tree store called directly, in any order ----
StoreCreatePlan ==
    /\ \E k \in 0..MaxInitChildren : plan' = CreatePlan(k)
    /\ storeRet' = [op |-> "create_plan", arg |-> None, val |-> None]
    /\ plan_file' = plan'
    /\ UNCHANGED <<engineVars, auxVars>>

StoreUpdateNodeStatus ==
    /\ \E node_id \in 1..(MaxStoreNodes + 1), new_status \in Statuses :
         /\ plan' = UpdateNodeStatus(plan, node_id, new_status)
         /\ storeRet' = [op |-> "update_node_status", arg |-> node_id,
                         val |-> IF plan # NoPlan /\ FindNodeById(plan, node_id) # None
                                 THEN 1 ELSE 0]
         /\ plan_file' = IF storeRet'.val = 1 THEN plan' ELSE plan_file
    /\ UNCHANGED <<engineVars, auxVars>>

StoreAddSubNode ==
    /\ Len(plan.par) < MaxStoreNodes
    /\ \E parent_id \in 1..(MaxStoreNodes + 1) :
         /\ plan' = AddSubNode(plan, parent_id)
         /\ storeRet' = [op |-> "add_sub_node", arg |-> parent_id,
                         val |-> IF plan' # plan THEN Len(plan'.par) ELSE None]
         /\ plan_file' = IF storeRet'.val # None THEN plan' ELSE plan_file
    /\ UNCHANGED <<engineVars, auxVars>>

StoreGetNextPendingNode ==
    /\ storeRet' = [op |-> "get_next_pending_node", arg |-> None, val |-> GetNextPendingNode(plan)]
    /\ UNCHANGED <<plan, plan_file>>
    /\ UNCHANGED <<engineVars, auxVars>>

StoreNext ==
    \/ StoreCreatePlan
    \/ StoreUpdateNodeStatus
    \/ StoreAddSubNode
    \/ StoreGetNextPendingNode

StoreSpec == Init /\ [][StoreNext]_vars

\* ---- the blackboard called by both threads, any call at any time ----
planVars == <<plan, storeRet, plan_file>>

BoardCall ==
    /\ \E t \in Threads, op \in BoardOps, section \in BoardSections,
          key \in Keys, value \in Values :
          BBInvoke(t, op, section,
                   IF op \in {"post", "get"} THEN key ELSE 1,
                   IF op = "post" THEN value ELSE NoValue)
    /\ UNCHANGED <<engineVars, planVars, debateVars, retrievalVars, serverVars, persistVars, libVars>>

BoardAcquire == (\E t \in Threads : BBAcquire(t)) /\ UNCHANGED <<engineVars, planVars, debateVars, retrievalVars, serverVars, persistVars, libVars>>
BoardPostCheck == (\E t \in Threads : BBPostCheck(t)) /\ UNCHANGED <<engineVars, planVars, debateVars, retrievalVars, serverVars, persistVars, libVars>>
BoardPostCreate == (\E t \in Threads : BBPostCreate(t)) /\ UNCHANGED <<engineVars, planVars, debateVars, retrievalVars, serverVars, persistVars, libVars>>
BoardPostWrite == (\E t \in Threads : BBPostWrite(t)) /\ UNCHANGED <<engineVars, planVars, debateVars, retrievalVars, serverVars, persistVars, libVars>>
BoardBody == (\E t \in Threads : BBBody(t)) /\ UNCHANGED <<engineVars, planVars, debateVars, retrievalVars, serverVars, persistVars, libVars>>

BoardNext ==
    \/ BoardCall
    \/ BoardAcquire
    \/ BoardPostCheck
    \/ BoardPostCreate
    \/ BoardPostWrite
    \/ BoardBody

BoardSpec == Init /\ [][BoardNext]_vars

\* ---- the expert debate: any number of experts, any scheduling of the pool ----
DebateStart == DebateBegin /\ UNCHANGED <<engineVars, planVars, boardVars, retrievalVars, serverVars, persistVars, libVars>>
DebateWorkerStart ==
    (\E w \in ExpertIds : WorkerStart(w)) /\ UNCHANGED <<engineVars, planVars, boardVars, retrievalVars, serverVars, persistVars, libVars>>
DebateWorkerReturn ==
    (\E w \in ExpertIds : WorkerReturn(w)) /\ UNCHANGED <<engineVars, planVars, boardVars, retrievalVars, serverVars, persistVars, libVars>>
DebateWorkerRaise ==
    (\E w \in ExpertIds : WorkerRaise(w)) /\ UNCHANGED <<engineVars, planVars, boardVars, retrievalVars, serverVars, persistVars, libVars>>
DebateRoundEnd ==
    /\ DebateCollect
    /\ transcript_file' = debate_transcript'
    /\ UNCHANGED <<engineVars, planVars, boardVars, retrievalVars, serverVars, saving, status_seen, libVars>>
DebateRaise == DebateAbort /\ UNCHANGED <<engineVars, planVars, boardVars, retrievalVars, serverVars, persistVars, libVars>>

DebateNext ==
    \/ DebateStart
    \/ DebateWorkerStart
    \/ DebateWorkerReturn
    \/ DebateWorkerRaise
    \/ DebateRoundEnd
    \/ DebateRaise

DebateSpec == Init /\ [][DebateNext]_vars

\* ---- one retrieval: any outcome of every job, any order of completion ----
RetrievalStart == RetrievalBegin /\ UNCHANGED <<engineVars, planVars, boardVars, debateVars, serverVars, persistVars, libVars>>
RetrievalJobSucceeds ==
    (\E j \in JobIds : JobSucceeds(j)) /\ UNCHANGED <<engineVars, planVars, boardVars, debateVars, serverVars, persistVars, libVars>>
RetrievalJobFails ==
    (\E j \in JobIds : JobFails(j)) /\ UNCHANGED <<engineVars, planVars, boardVars, debateVars, serverVars, persistVars, libVars>>
RetrievalCollect ==
    (\E j \in JobIds : JobCollect(j)) /\ UNCHANGED <<engineVars, planVars, boardVars, debateVars, serverVars, persistVars, libVars>>
RetrievalEnd == RetrievalFinish /\ UNCHANGED <<engineVars, planVars, boardVars, debateVars, serverVars, persistVars, libVars>>

RetrievalNext ==
    \/ RetrievalStart
    \/ RetrievalJobSucceeds
    \/ RetrievalJobFails
    \/ RetrievalCollect
    \/ RetrievalEnd

RetrievalSpec == Init /\ [][RetrievalNext]_vars

\* ---- add-task requests against the Exploration stages of a running job ----
ServerAddTask ==
    AddTaskPost /\ UNCHANGED <<engineVars, planVars, debateVars, retrievalVars, persistVars, libVars>>
ServerAddTaskReturn ==
    AddTaskReturn /\ UNCHANGED <<engineVars, planVars, debateVars, retrievalVars, persistVars, libVars>>
ServerExplorationRead ==
    ExplorationRead /\ UNCHANGED <<engineVars, planVars, debateVars, retrievalVars, persistVars, libVars>>
ServerExplorationClear ==
    ExplorationClear /\ UNCHANGED <<engineVars, planVars, debateVars, retrievalVars, persistVars, libVars>>
ServerExplorationUpdate ==
    ExplorationUpdate /\ UNCHANGED <<engineVars, planVars, debateVars, retrievalVars, persistVars, libVars>>

ServerNext ==
    \/ ServerAddTask
    \/ ServerAddTaskReturn
    \/ ServerExplorationRead
    \/ ServerExplorationClear
    \/ ServerExplorationUpdate
    \/ BoardAcquire
    \/ BoardPostCheck
    \/ BoardPostCreate
    \/ BoardPostWrite
    \/ BoardBody

ServerSpec == Init /\ [][ServerNext]_vars

\* A run in which every evaluation scores 95 and every task finds its debate
\* workers: plans of one to three tasks at the start, grown by exploration.
ScenarioRatings == {RESEARCH_APPROVAL_THRESHOLD + 15}

ScenarioPlanning == PlanningWith(0..MaxInitChildren)
ScenarioResearch == ResearchWith({TRUE}, {"empty", "docs"})
ScenarioExploration == ExplorationWith(ProposalLists, MaxNodes)
ScenarioCritique == CritiqueWith(ScenarioRatings, ScenarioRatings, {"evaluation"})

ScenarioNext ==
    \/ ScenarioPlanning
    \/ ScenarioCritique
    \/ Router
    \/ ScenarioResearch
    \/ Writing
    \/ ScenarioExploration
    \/ Summarize

ScenarioSpec == Init /\ [][ScenarioNext]_vars

\* The server's runs. status_server.py builds the plan store and the Blackboard
\* once, at import; start_new_research hands the same objects to every run.
\* the key an entry of the earlier run has: node ids are uuid4 values, so the
\* earlier plan's ids are none of the new plan's ids
EarlierRun(n) == MaxNodes + MaxDeepNodes + n

\* start_new_research, called when no run is in progress: it removes the two
\* state files and starts the graph on a new GraphState with the objects of
\* the process. Blackboard._data and PlanManager.plan keep what the earlier
\* run left in them. The model follows one run after an earlier one.
StartNewResearch ==
    /\ pc \in {"done", "failed", "critique_raised", "ended"}
    /\ \A i \in 1..Len(final_order) : final_order[i] <= MaxNodes
    /\ pc' = "planning"
    /\ last_completed_node' = "none"
    /\ current_plan_node_id' = None
    /\ feedback' = [rating |-> 0, fb |-> NoFeedback]
    /\ planning_feedback' = NoFeedback
    /\ research_feedback' = NoFeedback
    /\ research_retry_count' = 0
    /\ best_draft_so_far' = NoDraft
    /\ best_rating_so_far' = 0
    /\ final_summary' = "none"
    /\ final_order' = [i \in 1..Len(final_order) |-> EarlierRun(final_order[i])]
    /\ final_content' = [n \in NodeSpace |->
                            IF \E m \in 1..MaxNodes : n = EarlierRun(m)
                            THEN final_content[n - MaxNodes - MaxDeepNodes]
                            ELSE NoDraft]
    /\ summary_input' = <<>>
    /\ summary_calls' = 0
    /\ evals' = [n \in NodeSpace |-> <<>>]
    /\ attempts' = [n \in NodeSpace |-> 0]
    /\ route' = "none"
    /\ lastExploration' = NoExploration
    /\ plan_file' = NoPlan
    /\ feedback_task' = None
    /\ experts_feedback' = NothingHanded
    /\ critic_previous_feedback' = NotEvaluated
    /\ produced_by' = [a \in DOMAIN produced_by |->
                          IF produced_by[a] = NotProduced THEN NotProduced
                          ELSE ProducedIn(EarlierRun(produced_by[a].task), produced_by[a].attempt)]
    /\ stage_read' = {}
    /\ UNCHANGED <<plan, retrieved_data, expert_discussion, output_draft, storeRet, auxVars>>

LaterRunNext ==
    \/ ScenarioNext
    \/ StartNewResearch

LaterRunSpec == Init /\ [][LaterRunNext]_vars

\* ---- the start of runs: the server's event loop answers the requests one at
\* a time; each run has its own thread, which the scheduler may run at any
\* moment once it is started ----
notRunVars == <<engineVars, planVars, boardVars, debateVars, retrievalVars, serverVars,
                persistVars, copyVars, parserVars>>

\* start_new_research: 409 while is_running is set, else a new thread is
\* started and the request is answered; is_running is not written here
StartRequest ==
    /\ IF is_running
       THEN /\ last_response' = 409
            /\ UNCHANGED run_thread
       ELSE \E t \in 1..MaxStartRequests :
              /\ run_thread[t] = "none"
              /\ \A u \in 1..(t - 1) : run_thread[u] # "none"
              /\ run_thread' = [run_thread EXCEPT ![t] = "started"]
              /\ last_response' = 200
    /\ UNCHANGED <<is_running, notRunVars>>

\* run_research_in_background up to the call of the graph: it sets is_running
RunBegins(t) ==
    /\ run_thread[t] = "started"
    /\ is_running' = TRUE
    /\ run_thread' = [run_thread EXCEPT ![t] = "invoking"]
    /\ UNCHANGED <<last_response, notRunVars>>

\* run_research_in_background from the return of the graph on: the finally
\* block resets is_running
RunEnds(t) ==
    /\ run_thread[t] = "invoking"
    /\ is_running' = FALSE
    /\ run_thread' = [run_thread EXCEPT ![t] = "finished"]
    /\ UNCHANGED <<last_response, notRunVars>>

RunStarts == \E t \in 1..MaxStartRequests : RunBegins(t)
RunFinishes == \E t \in 1..MaxStartRequests : RunEnds(t)

StartNext ==
    \/ StartRequest
    \/ RunStarts
    \/ RunFinishes

StartSpec == Init /\ [][StartNext]_vars

\* ---- the two state files, as the run writes them and the status report
\* reads them ----
\* The engine's thread changes the tree (before the debate of a task) and runs
\* the debate; the server's thread answers /api/status at any moment.
\* _save_plan opens the file with mode 'w', which empties it, and then dumps
\* the tree into it: two steps.
PersistOpen(p) ==
    /\ saving = "none"
    /\ debate_pc = "idle"
    /\ plan' = p
    /\ saving' = "plan"
    /\ UNCHANGED <<engineVars, storeRet, plan_file, boardVars, debateVars, retrievalVars,
                   serverVars, transcript_file, status_seen, libVars>>

\* create_plan up to the open() of _save_plan
PersistCreatePlan == \E k \in 0..MaxInitChildren : PersistOpen(CreatePlan(k))

\* update_node_status of a node of the tree, up to the open() of _save_plan
PersistUpdateNodeStatus ==
    \E node_id \in NodeIds(plan), new_status \in Statuses :
        PersistOpen(UpdateNodeStatus(plan, node_id, new_status))

\* add_sub_node under a node of the tree, up to the open() of _save_plan
PersistAddSubNode ==
    /\ Len(plan.par) <= MaxInitChildren
    /\ \E parent_id \in NodeIds(plan) : PersistOpen(AddSubNode(plan, parent_id))

\* json.dump and the end of the with block of _save_plan
PersistDump ==
    /\ saving = "plan"
    /\ plan_file' = plan
    /\ saving' = "none"
    /\ UNCHANGED <<engineVars, plan, storeRet, boardVars, debateVars, retrievalVars,
                   serverVars, transcript_file, status_seen, libVars>>

\* StatusReportAgent._read_json_file on research_plan.json: a missing file
\* and a file json.load cannot decode both give {}
StatusReportRead ==
    /\ status_seen' = IF saving = "plan" THEN "undecodable"
                      ELSE IF plan_file = NoPlan THEN "missing"
                      ELSE "document"
    /\ UNCHANGED <<engineVars, planVars, boardVars, debateVars, retrievalVars,
                   serverVars, transcript_file, saving, libVars>>

\* research_node, step 4 up to the first round's calls, after its plan update
\* was saved
PersistDebateStart == saving = "none" /\ plan # NoPlan /\ DebateStart

\* discussion_history.extend(round_responses). From the first post on, the
\* value under expert_discussion, transcript is this same list object.
DebateExtend ==
    /\ debate_pc = "round"
    /\ RoundComplete
    /\ discussion_history' = ExtendedHistory(discussion_history,
                                             RoundResponses(worker, 1, debate_i))
    /\ debate_transcript' = IF debate_i > 1 THEN discussion_history' ELSE debate_transcript
    /\ debate_pc' = "extended"
    /\ UNCHANGED <<debate_i, debate_experts, worker, debate_done>>
    /\ UNCHANGED <<engineVars, planVars, boardVars, retrievalVars, serverVars, persistVars, libVars>>

\* blackboard.post("expert_discussion", "transcript", discussion_history),
\* then the next round's calls or the end of the debate
DebatePost ==
    /\ debate_pc = "extended"
    /\ debate_transcript' = discussion_history
    /\ transcript_file' = debate_transcript'
    /\ IF debate_i < DEBATE_ROUNDS
          THEN /\ debate_i' = debate_i + 1
               /\ worker' = SubmitRound(debate_experts)
               /\ debate_pc' = "round"
          ELSE /\ debate_pc' = "finished"
               /\ worker' = [w \in ExpertIds |-> NoWorker]
               /\ UNCHANGED debate_i
    /\ UNCHANGED <<debate_experts, discussion_history, debate_done>>
    /\ UNCHANGED <<engineVars, planVars, boardVars, retrievalVars, serverVars, saving, status_seen, libVars>>

PersistNext ==
    \/ PersistCreatePlan
    \/ PersistUpdateNodeStatus
    \/ PersistAddSubNode
    \/ PersistDump
    \/ StatusReportRead
    \/ PersistDebateStart
    \/ DebateWorkerStart
    \/ DebateWorkerReturn
    \/ DebateExtend
    \/ DebatePost

PersistSpec == Init /\ [][PersistNext]_vars

\* ---- get_section and what its caller does with the result ----
\* The values of a section are objects (the transcript list, the document
\* list, a proposal's dict); held and snapshot give their contents, shared
\* says under which keys the two mappings refer to one and the same object.
notSharedVars == <<engineVars, planVars, boardVars, debateVars, retrievalVars, serverVars,
                   persistVars, parserVars, runVars>>

\* post(section, key, value): the section refers to the caller's value object
CopyPost ==
    /\ \E key \in Keys, value \in Values :
          /\ held' = [held EXCEPT ![key] = value]
          /\ shared' = shared \ {key}
    /\ UNCHANGED <<snapshot, notSharedVars>>

\* clear_section: the section becomes a new empty dict
CopyClearSection ==
    /\ held' = EmptyItems
    /\ shared' = {}
    /\ UNCHANGED <<snapshot, notSharedVars>>

\* get_section: self._data.get(section, {}).copy(), a new dict that refers to
\* the same value objects
CopyGetSection ==
    /\ snapshot' = held
    /\ shared' = {key \in Keys : held[key] # NoValue}
    /\ UNCHANGED <<held, notSharedVars>>

\* the caller binds a key of the returned mapping to another object, or deletes it
CallerRebinds ==
    /\ \E key \in Keys, value \in Values \cup {NoValue} :
          /\ snapshot' = [snapshot EXCEPT ![key] = value]
          /\ shared' = shared \ {key}
    /\ UNCHANGED <<held, notSharedVars>>

\* the caller changes a value object of the returned mapping in place
\* (list.append, dict item assignment)
CallerMutatesValue ==
    /\ \E key \in Keys, value \in Values :
          /\ snapshot[key] # NoValue
          /\ snapshot' = [snapshot EXCEPT ![key] = value]
          /\ held' = IF key \in shared THEN [held EXCEPT ![key] = value] ELSE held
    /\ UNCHANGED <<shared, notSharedVars>>

CopyNext ==
    \/ CopyPost
    \/ CopyClearSection
    \/ CopyGetSection
    \/ CallerRebinds
    \/ CallerMutatesValue

CopySpec == Init /\ [][CopyNext]_vars

\* ---- parse_llm_json_output (utils.py) ----
\* A reply is a sequence of tokens: braces and brackets, a scalar, a word of
\* prose, the opening and the closing marker, and a JSON string whose text
\* contains the closing marker. Commas, colons and keys are left out: a JSON
\* object or array is an opener, any number of values, and its closer.
Openers == {"{", "["}
Closer(t) == IF t = "{" THEN "}" ELSE "]"
JsonStringWithMarker == "str</t>"
JsonTokens == {"{", "}", "[", "]", "1", JsonStringWithMarker}
Tokens == JsonTokens \cup {"w", "<t>", "</t>"}

RECURSIVE ValueEnd(_, _)
RECURSIVE ItemsEnd(_, _, _)
\* json.loads: the index of the last token of the JSON value that starts at
\* i, 0 when none starts there
ValueEnd(s, i) ==
    IF i > Len(s) THEN 0
    ELSE IF s[i] \in {"1", JsonStringWithMarker} THEN i
    ELSE IF s[i] \in Openers THEN ItemsEnd(s, i + 1, Closer(s[i]))
    ELSE 0

ItemsEnd(s, i, closer) ==
    IF i > Len(s) THEN 0
    ELSE IF s[i] = closer THEN i
    ELSE CHOOSE e \in {IF end = 0 THEN 0 ELSE ItemsEnd(s, end + 1, closer) :
                          end \in {ValueEnd(s, i)}} : TRUE

\* json.loads accepts the text
IsJson(s) == s # <<>> /\ ValueEnd(s, 1) = Len(s)

\* the replies the parser is given: every text of up to MaxTextLen tokens,
\* and every JSON object or array of up to MaxJsonLen tokens between the markers
JsonValues == {v \in SeqsUpTo(JsonTokens, MaxJsonLen) : IsJson(v) /\ v[1] \in Openers}
Wrap(v) == <<"<t>">> \o v \o <<"</t>">>
Texts == SeqsUpTo(Tokens, MaxTextLen) \cup {Wrap(v) : v \in JsonValues}

\* the text of the closing marker occurs at token j
HasClosingMarker(s, j) == s[j] \in {"</t>", JsonStringWithMarker}

\* re.search(r"<t>(.*?)</t>"): the leftmost opening marker that a closing
\* marker text follows, and the text up to the first such closing text. When
\* that text lies inside a JSON string, the string's opening quote ends the
\* content; it follows every brace of the content and is left out here.
XmlSearch(s) ==
    LET starts == {i \in 1..Len(s) : s[i] = "<t>" /\ \E j \in (i + 1)..Len(s) : HasClosingMarker(s, j)}
    IN IF starts = {} THEN [found |-> FALSE, content |-> <<>>]
       ELSE LET i == CHOOSE a \in starts : \A b \in starts : a <= b
                j == CHOOSE a \in (i + 1)..Len(s) :
                        /\ HasClosingMarker(s, a)
                        /\ \A b \in (i + 1)..(a - 1) : ~HasClosingMarker(s, b)
            IN [found |-> TRUE, content |-> SubSeq(s, i + 1, j - 1)]

\* re.search(r"\{.*\}|\[.*\]"): from the leftmost opener that its own kind
\* of closer follows, up to the last such closer; <<>> when there is none
JsonSearch(s) ==
    LET starts == {i \in 1..Len(s) : s[i] \in Openers
                                      /\ \E j \in (i + 1)..Len(s) : s[j] = Closer(s[i])}
    IN IF starts = {} THEN <<>>
       ELSE LET i == CHOOSE a \in starts : \A b \in starts : a <= b
                ends == {j \in (i + 1)..Len(s) : s[j] = Closer(s[i])}
                j == CHOOSE a \in ends : \A b \in ends : a >= b
            IN SubSeq(s, i, j)

Found(v) == [found |-> TRUE, value |-> v]

\* stages 1 to 3 of parse_llm_json_output
ParseLlmJsonOutput(response_str) ==
    LET xml_match == XmlSearch(response_str)
        json_inner_match == JsonSearch(xml_match.content)
        json_fallback_match == JsonSearch(response_str)
    IN IF xml_match.found /\ json_inner_match # <<>> /\ IsJson(json_inner_match)
       THEN Found(json_inner_match)
       ELSE IF json_fallback_match # <<>> /\ IsJson(json_fallback_match)
       THEN Found(json_fallback_match)
       ELSE NotParsed

\* an agent hands a reply to the parser
ParseReply ==
    /\ llm_output = <<>>
    /\ \E response_str \in Texts :
          /\ llm_output' = response_str
          /\ parsed' = ParseLlmJsonOutput(response_str)
    /\ UNCHANGED <<engineVars, planVars, boardVars, debateVars, retrievalVars, serverVars,
                   persistVars, copyVars, runVars>>

ParserSpec == Init /\ [][ParseReply]_vars

\* ------------------------------------------------------------------------
\* Properties
\* ------------------------------------------------------------------------
RECURSIVE Depth(_, _)
\* distance of node n from the root, along the parent pointers
Depth(p, n) == IF p.par[n] = 0 THEN 0 ELSE 1 + Depth(p, p.par[n])

RECURSIVE PreOrder(_, _)
RECURSIVE PreOrderAll(_, _)
\* the nodes of the subtree of n: n before its children, children in insertion order
PreOrder(p, n) == <<n>> \o PreOrderAll(p, Children(p, n))
PreOrderAll(p, kids) ==
    IF kids = <<>> THEN <<>> ELSE PreOrder(p, Head(kids)) \o PreOrderAll(p, Tail(kids))

RECURSIVE FirstPendingOf(_, _)
FirstPendingOf(p, order) ==
    IF order = <<>> THEN None
    ELSE IF p.st[Head(order)] = "pending" THEN Head(order)
    ELSE FirstPendingOf(p, Tail(order))

FirstPendingInPreOrder(p) == IF p = NoPlan THEN None ELSE FirstPendingOf(p, PreOrder(p, 1))

Rank(status) == CASE status = "pending" -> 0
                  [] status = "in-progress" -> 1
                  [] status = "completed" -> 2

Approved(h) == {i \in 1..Len(h) : h[i][2] > RESEARCH_APPROVAL_THRESHOLD}
Min(S) == CHOOSE x \in S : \A y \in S : x <= y
\* the first evaluation of h no other evaluation of h scores above
BestIndex(h) == Min({i \in 1..Len(h) : \A j \in 1..Len(h) : h[j][2] <= h[i][2]})
\* what the retry loop is to commit after the evaluations h of one task
ExpectedContent(h) ==
    IF Approved(h) # {} THEN h[Min(Approved(h))][1] ELSE h[BestIndex(h)][1]

\* C1: when the run is over, the content committed for every task whose drafts
\* were evaluated is the first draft scoring above the threshold, or, if none
\* did, the highest-scoring draft evaluated for that task.
C1_CommittedIsFirstApprovedOrBest ==
    pc = "done" =>
        \A n \in NodeIds(plan) :
            evals[n] # <<>> => final_content[n] = ExpectedContent(evals[n])

\* C2: the Research stage that follows the rejection of a task's draft within
\* the retry budget works on the task of the rejected attempt: the current task
\* id is unchanged.
C2_RetryWorksOnSameTask ==
    [][(pc = "research" /\ route = "retry" /\ current_plan_node_id # None
          /\ feedback.fb = DraftFeedback(current_plan_node_id))
         => current_plan_node_id' = current_plan_node_id]_vars

\* C3: a task whose evaluations all score 50 gets exactly 1 + MAX_RESEARCH_RETRIES
\* Research attempts, is completed, and its committed content is the best of
\* those drafts.
C3_AlwaysFiftyGetsFourAttempts ==
    pc = "done" =>
        \A n \in NodeIds(plan) :
            (evals[n] # <<>> /\ \A i \in 1..Len(evals[n]) : evals[n][i][2] = 50)
                => /\ attempts[n] = 1 + MAX_RESEARCH_RETRIES
                   /\ plan.st[n] = "completed"
                   /\ final_content[n] = ExpectedContent(evals[n])

\* C4: a task that Research has just selected for its first attempt starts
\* with retry counter 0 and an empty best candidate.
C4_NewTaskStartsWithFreshRetryState ==
    (pc = "writing" /\ last_completed_node = "research_node"
        /\ current_plan_node_id # None /\ attempts[current_plan_node_id] = 1)
        => /\ research_retry_count = 0
           /\ best_draft_so_far = NoDraft
           /\ best_rating_so_far = 0

C6_AllCompletedAtSummarize ==
    pc = "summarize" => \A n \in NodeIds(plan) : plan.st[n] = "completed"

\* C7: the status of a plan node only moves forward along
\* pending -> in-progress -> completed.
C7_StatusOnlyMovesForward ==
    [][\A n \in NodeIds(plan) \cap NodeIds(plan') :
          Rank(plan'.st[n]) >= Rank(plan.st[n])]_vars

\* C7 witness: a run is done with a node committed and a node set in-progress
C7_NodesWentThroughStatuses ==
    /\ pc = "done"
    /\ \E n \in NodeIds(plan) : plan.st[n] = "completed" /\ final_content[n] # NoDraft
    /\ \E n \in NodeIds(plan) : plan.st[n] = "in-progress"

\* C8: get_next_pending_node returns the first pending node in pre-order, returns
\* none exactly when no node is pending, and the result of a call is what a
\* call returns as long as the tree is unchanged.
C8_NextPendingIsFirstInPreOrder ==
    /\ GetNextPendingNode(plan) = FirstPendingInPreOrder(plan)
    /\ (GetNextPendingNode(plan) = None
            <=> \A n \in NodeIds(plan) : plan.st[n] # "pending")
    /\ (storeRet.op = "get_next_pending_node" => storeRet.val = GetNextPendingNode(plan))

\* C8 witness: the call returned a node although a pending node with a smaller
\* id, nearer to the root, exists: pre-order, not creation or level order
C8_ReturnedDeeperNodeFirst ==
    /\ storeRet.op = "get_next_pending_node"
    /\ storeRet.val # None
    /\ \E m \in NodeIds(plan) :
          /\ m < storeRet.val
          /\ plan.st[m] = "pending"
          /\ Depth(plan, m) < Depth(plan, storeRet.val)

\* C9 as stated: add_sub_node under a parent at depth >= MAX_PLAN_DEPTH appends nothing.
C9_AddSubNodeRejectsAtMaxDepth ==
    \A n \in NodeIds(plan) :
        Depth(plan, n) >= MAX_PLAN_DEPTH => AddSubNode(plan, n) = plan

\* C9 amended: PlanUpdaterAgent.execute appends nothing under a parent at depth
\* >= MAX_PLAN_DEPTH, whatever the proposals, so no tree of a run has a node
\* deeper than MAX_PLAN_DEPTH.
C9_UpdaterKeepsDepthLimit ==
    /\ \A n \in NodeIds(plan) : Depth(plan, n) <= MAX_PLAN_DEPTH
    /\ \A n \in NodeIds(plan) :
          Depth(plan, n) >= MAX_PLAN_DEPTH
              => \A proposals \in ProposalLists :
                    PlanUpdaterExecute(plan, proposals, n) = plan

\* C9 witness: Exploration has run for a task at depth MAX_PLAN_DEPTH while the
\* tree had room for more nodes
C9_ExploredAtMaxDepth ==
    /\ pc = "critique"
    /\ lastExploration.node # None
    /\ Depth(plan, lastExploration.node) = MAX_PLAN_DEPTH
    /\ Len(plan.par) < MaxDeepNodes

\* C10 as stated: a proposed child that would sit at depth MAX_PLAN_DEPTH is
\* rejected even if approved.
C10_ChildAtMaxDepthRejected ==
    (lastExploration.node # None
        /\ Depth(plan, lastExploration.node) + 1 = MAX_PLAN_DEPTH
        /\ lastExploration.approved > 0)
        => lastExploration.added = 0

\* C10 amended: an Exploration stage for a current task at depth >= MAX_PLAN_DEPTH
\* (its children would sit below the maximum depth) leaves the plan tree
\* unchanged, approved proposals included.
C10_ExplorationAtMaxDepthKeepsPlan ==
    [][(pc = "exploration" /\ current_plan_node_id # None
          /\ Depth(plan, current_plan_node_id) >= MAX_PLAN_DEPTH)
         => plan' = plan]_vars

\* C10 witness: Exploration processed an approved proposal for a task at depth
\* MAX_PLAN_DEPTH and appended nothing
C10_ApprovedProposalDroppedAtMaxDepth ==
    /\ lastExploration.node # None
    /\ Depth(plan, lastExploration.node) = MAX_PLAN_DEPTH
    /\ lastExploration.approved > 0
    /\ lastExploration.added = 0
    /\ Len(plan.par) < MaxDeepNodes

\* C11: the blackboard is linearizable: whenever the lock is free the store is
\* what the calls made so far give when run one at a time in the order they
\* entered, and every call returned what it returns in that order; so posts to
\* different keys from both threads are all in the store, and a reader never
\* sees a section between the steps of a post.
C11_BlackboardLinearizable ==
    /\ bb_lock = NoThread => bb_data = bb_lin
    /\ \A t \in Threads :
          (bb_call[t].pc = "idle" /\ bb_call[t].op # "none")
              => bb_call[t].ret = bb_expected[t]

\* C11 witness: a thread is between the steps of a post that creates the
\* section while the other thread waits to post another key of that section
C11_ConcurrentPostsToNewSection ==
    \E t \in Threads, u \in Threads :
        /\ bb_call[t].op = "post" /\ bb_call[t].pc = "write" /\ ~bb_call[t].found
        /\ bb_call[u].op = "post" /\ bb_call[u].pc = "acquire"
        /\ bb_call[u].section = bb_call[t].section
        /\ bb_call[u].key # bb_call[t].key

RECURSIVE RoundsBefore(_, _)
\* what every expert of n returned in the rounds before round k, in order
RoundsBefore(n, k) ==
    IF k <= 1 THEN <<>>
    ELSE RoundsBefore(n, k - 1) \o [w \in 1..n |-> Output(w, k - 1)]

\* C12: the debate rounds are a barrier: a call of round k runs only when
\* every call of the rounds before k has returned, and the discussion it is
\* handed is exactly what all experts returned in rounds 1..k-1.
C12_RoundsAreBarrier ==
    \A w \in ExpertIds :
        worker[w].st \in {"running", "returned", "raised"}
            => /\ worker[w].seen = RoundsBefore(debate_experts, debate_i)
               /\ \A k \in 1..(debate_i - 1) : debate_done[k] = debate_experts

\* C12 witness: in the last round, one expert's call has returned while
\* another's is still running
C12_LastRoundHalfDone ==
    /\ debate_i = DEBATE_ROUNDS
    /\ \E w \in ExpertIds, v \in ExpertIds :
          /\ worker[w].st = "returned"
          /\ worker[v].st = "running"

\* C14: a debate call that raises does not abort the run: the exception never
\* leaves the Research stage.
C14_RaiseDoesNotAbort == debate_pc # "raised"

\* the document keys of a list
KeysOf(docs) == {DocKey(docs[i]) : i \in 1..Len(docs)}

\* C13: a failed search job aborts neither its siblings nor the stage: the
\* stage returns, without duplicates, exactly the documents of the jobs that
\* succeeded, each in the copy one of them returned.
C13_ResultsOfSucceededJobs ==
    ret_pc = "done" =>
          /\ KeysOf(final_results) = UNION {KeysOf(job[j].docs) : j \in {i \in JobIds : job[i].st = "ok"}}
          /\ \A a \in 1..Len(final_results), b \in 1..Len(final_results) :
                DocKey(final_results[a]) = DocKey(final_results[b]) => a = b
          /\ \A a \in 1..Len(final_results) :
                \E j \in JobIds : /\ job[j].st = "ok"
                                  /\ \E i \in 1..Len(job[j].docs) : job[j].docs[i] = final_results[a]

\* C13 witness: the stage has returned documents although one of its jobs
\* had failed
C13_ReturnedAfterFailedJob ==
    /\ ret_pc = "done"
    /\ final_results # <<>>
    /\ \E j \in JobIds : job[j].st = "failed"

C16_FailedPlanningEndsRun ==
    /\ [][(pc = "planning" /\ pc' = "failed") => plan' = plan]_vars
    /\ [][pc = "failed" => pc' = "failed"]_vars

\* C16 witness: the run failed in a Planning stage that was to revise a plan
C16_FailedRevision ==
    /\ pc = "failed"
    /\ plan # NoPlan
    /\ route = "plan_rejected"

\* C17: an evaluation reply that cannot be parsed never aborts the run.
C17_UnparsableReplyDoesNotAbort == pc # "critique_raised"

\* the router has just committed the current task with the draft evaluated
CommittedByRouter ==
    /\ plan'.st[current_plan_node_id] = "completed"
    /\ final_content'[current_plan_node_id] = output_draft[current_plan_node_id]
    /\ research_retry_count' = 0
    /\ best_draft_so_far' = NoDraft
    /\ best_rating_so_far' = 0
    /\ pc' = IF \E n \in NodeIds(plan') : plan'.st[n] = "pending"
             THEN "research" ELSE "summarize"

DraftGate == pc = "router" /\ last_completed_node \in {"writing_node", "exploration_node"}

\* C18 as stated: a draft scored above 80 is committed by the router, a draft
\* scored exactly 80 is not committed.
C18_CommitAbove80Only ==
    [][DraftGate =>
          /\ feedback.rating > RESEARCH_APPROVAL_THRESHOLD => CommittedByRouter
          /\ feedback.rating = RESEARCH_APPROVAL_THRESHOLD
                => /\ plan' = plan
                   /\ final_content' = final_content]_vars

\* C18 amended: a draft scored above 80 is committed by the router (task completed,
\* final_content the draft just evaluated, retry counter 0, tracker empty,
\* then Research if a node is pending, else Summarize); a draft scored
\* exactly 80 is rejected: a retry while the budget lasts, else the forced commit.
C18_CommitAbove80 ==
    [][DraftGate =>
          /\ feedback.rating > RESEARCH_APPROVAL_THRESHOLD
                => CommittedByRouter /\ route' = "approved"
          /\ feedback.rating = RESEARCH_APPROVAL_THRESHOLD
                => /\ route' \in {"retry", "forced"}
                   /\ route' = "forced" <=> research_retry_count + 1 > MAX_RESEARCH_RETRIES
                   /\ route' = "retry"
                         => /\ plan' = plan
                            /\ final_content' = final_content
                            /\ research_retry_count' = research_retry_count + 1
                            /\ pc' = "research"]_vars

\* C18 witness: a draft scored 81 was committed and a pending node is next
C18_CommittedAt81 ==
    /\ route = "approved"
    /\ pc = "research"
    /\ feedback.rating = RESEARCH_APPROVAL_THRESHOLD + 1
    /\ current_plan_node_id # None
    /\ final_content[current_plan_node_id] = output_draft[current_plan_node_id]
    /\ output_draft[current_plan_node_id] # NoDraft

\* C19: when the retry budget is exhausted the placeholder is committed only
\* if no draft was produced and evaluated for the task.
C19_PlaceholderOnlyWithoutDraft ==
    (/\ route = "forced"
     /\ pc \in {"research", "summarize"}
     /\ current_plan_node_id # None
     /\ final_content[current_plan_node_id] = ErrorMessage)
        => evals[current_plan_node_id] = <<>>

\* C20: every proposal the add-task endpoint accepted is consumed by exactly
\* one Exploration stage: it is never processed twice, and as long as it is
\* not processed it is in the user_proposals section or among the proposals
\* the running Exploration stage has read.
C20_ProposalsConsumedOnce ==
    \A k \in accepted :
        /\ processed[k] <= 1
        /\ processed[k] = 0
              => \/ bb_data["user_proposals"].items[k] # NoValue
                 \/ k \in user_proposals
                 \/ (expl_pc = "read" /\ bb_call["engine"].pc = "idle"
                        /\ bb_call["engine"].ret[k] # NoValue)

\* the final content of the listed tasks, one entry per task
ContentsOf(order) == [i \in 1..Len(order) |-> final_content[order[i]]]

\* C21: in a run where every evaluation scores 95, each task of the plan is
\* committed with the draft of its first attempt, and the final summarization
\* is invoked exactly once, on the final content of exactly the plan's tasks
\* in plan order.
C21_AllFirstAttemptOneSummary ==
    /\ summary_calls <= 1
    /\ pc = "done" =>
          /\ \A n \in NodeIds(plan) :
                /\ attempts[n] = 1
                /\ plan.st[n] = "completed"
                /\ final_content[n] = Draft(n, 1)
          /\ summary_calls = 1
          /\ summary_input = ContentsOf(PreOrder(plan, 1))

\* a finished run on a plan of two tasks: both drafts summarized in plan order
C21_TwoTaskRunSummarized ==
    /\ pc = "done"
    /\ Len(plan.par) = 2
    /\ summary_calls = 1
    /\ summary_input = <<Draft(1, 1), Draft(2, 1)>>

\* the tasks that have an entry in section final_content, in plan order
CommittedInPlanOrder ==
    SelectSeq(PreOrder(plan, 1), LAMBDA n : final_content[n] # NoDraft)

\* C22: the text handed to the final summarization is the concatenation of
\* all entries of section final_content, ordered by the position of their
\* task in the plan tree (pre-order), whatever the order of the commits.
C22_SummaryInPlanOrder ==
    summary_calls >= 1 => summary_input = ContentsOf(CommittedInPlanOrder)

\* the value update_node_status and add_sub_node return for a node they did not find
StoreFailure(op) == IF op = "update_node_status" THEN 0 ELSE None

\* C23: update_node_status and add_sub_node called with an id that is not in
\* the tree return their failure value (false, none) and leave the tree and
\* the persisted document as they were.
C23_UnknownIdRejected ==
    [][(/\ storeRet'.op \in {"update_node_status", "add_sub_node"}
        /\ FindNodeById(plan, storeRet'.arg) = None)
       => /\ storeRet'.val = StoreFailure(storeRet'.op)
          /\ plan' = plan
          /\ plan_file' = plan_file]_vars

\* add_sub_node was called on a tree of several nodes with a parent id the
\* tree does not have, and the file holds the tree
C23_UnknownParentOnGrownTree ==
    /\ storeRet.op = "add_sub_node"
    /\ Len(plan.par) >= 2
    /\ FindNodeById(plan, storeRet.arg) = None
    /\ storeRet.val = None
    /\ plan_file = plan

\* C24: whenever no operation of the Plan Tree store or the Blackboard is in
\* progress, the persisted documents equal the in-memory state: the tree file
\* holds the tree, and the blackboard file holds the transcript the
\* Blackboard has in memory.
C24_PersistedEqualsMemory ==
    saving = "none" => /\ plan_file = plan
                       /\ transcript_file = debate_transcript

\* C25: a status report that reads the tree file while the run writes it
\* gets a complete document, the one before or the one after the write, never
\* an empty or partial file.
C25_ReaderSeesCompleteDocument == status_seen # "undecodable"

\* C26: whatever the caller of get_section does to the mapping it got, or to
\* the values in it, the section in the Blackboard stays as it is: later get
\* and get_section calls return what they would have returned.
C26_SnapshotIsDetached == [][snapshot' # snapshot => held' = held]_vars

\* the first balanced JSON object or array of a text, <<>> when it has none
FirstBalanced(s) ==
    LET starts == {i \in 1..Len(s) : s[i] \in Openers /\ ValueEnd(s, i) # 0}
    IN IF starts = {} THEN <<>>
       ELSE LET i == CHOOSE a \in starts : \A b \in starts : a <= b
            IN SubSeq(s, i, ValueEnd(s, i))

\* C27: a JSON object or array rendered between the markers comes back as
\* it was, and a text with no marker and no JSON object or array gives
\* not-found.
C27_RoundTrip ==
    /\ \A v \in JsonValues : llm_output = Wrap(v) => parsed = Found(v)
    /\ (/\ \A i \in 1..Len(llm_output) : llm_output[i] # "<t>"
        /\ FirstBalanced(llm_output) = <<>>) => parsed = NotParsed

\* C28: the extractor returns the first balanced JSON object or array of the
\* marked region, also when text with braces or brackets follows it, and the
\* first one of the whole text when there is no marked region or the region
\* holds none.
C28_FirstBalancedReturned ==
    LET region == XmlSearch(llm_output) IN
        parsed = IF region.found /\ FirstBalanced(region.content) # <<>>
                 THEN Found(FirstBalanced(region.content))
                 ELSE IF FirstBalanced(llm_output) # <<>>
                 THEN Found(FirstBalanced(llm_output))
                 ELSE NotParsed

\* C29: the workers of a debate are handed rejection feedback only in a retry
\* attempt of their task, and then the feedback of that task's preceding
\* rejection; the workers of a task's first attempt are handed none.
C29_FeedbackOnlyOnRetryOfSameTask ==
    (/\ pc = "writing"
     /\ last_completed_node = "research_node"
     /\ current_plan_node_id # None
     /\ expert_discussion)
    => /\ attempts[current_plan_node_id] = 1 => experts_feedback.fb = NoFeedback
       /\ experts_feedback.fb # NoFeedback =>
             /\ attempts[current_plan_node_id] > 1
             /\ experts_feedback.task = current_plan_node_id

\* C30: when the draft of a retry attempt is evaluated, the evaluation is
\* handed the feedback of the preceding rejection, the one the debate's
\* workers were handed; it is handed none only on a first attempt.
C30_CriticGetsRejectionFeedback ==
    (/\ pc = "router"
     /\ last_completed_node \in {"writing_node", "exploration_node"}
     /\ current_plan_node_id # None
     /\ output_draft[current_plan_node_id] # NoDraft
     /\ route = "retry")
    => /\ critic_previous_feedback # NoFeedback
       /\ critic_previous_feedback = experts_feedback.fb

\* C31: between a Research stage and the router, every operational artifact on
\* the blackboard (retrieved documents, transcript, drafts) was posted during
\* the current attempt of the current task, and so was every artifact that
\* Writing, Exploration and Critique have read.
C31_NoStaleArtifacts ==
    (/\ pc \in {"writing", "exploration", "critique", "router"}
     /\ current_plan_node_id # None)
    => LET current == ProducedIn(current_plan_node_id, attempts[current_plan_node_id]) IN
       /\ \A a \in DOMAIN produced_by : produced_by[a] \in {NotProduced, current}
       /\ \A n \in NodeSpace : DraftOrigin(output_draft[n]) \in {NotProduced, current}
       /\ stage_read \subseteq {current}

\* a draft of the second task is at the draft gate, evaluated, after the first
\* task's artifacts were posted and its draft committed
C31_SecondTaskDraftEvaluated ==
    /\ pc = "router"
    /\ last_completed_node \in {"writing_node", "exploration_node"}
    /\ current_plan_node_id # None
    /\ output_draft[current_plan_node_id] # NoDraft
    /\ \E n \in NodeSpace : n # current_plan_node_id /\ final_content[n] # NoDraft
    /\ produced_by.docs = ProducedIn(current_plan_node_id, attempts[current_plan_node_id])
    /\ ProducedIn(current_plan_node_id, attempts[current_plan_node_id]) \in stage_read

\* the number of debate rounds whose results were collected and posted
RoundsFinished ==
    IF debate_pc = "finished" THEN DEBATE_ROUNDS
    ELSE IF debate_pc \in {"round", "extended", "raised"} THEN debate_i - 1
    ELSE 0

\* C32: once round k of a debate is finished, the persisted transcript is the
\* outputs of rounds 1..k, round by round and in the order of the experts
\* within a round, k times the number of experts entries, whatever the order
\* in which the calls of a round returned.
C32_TranscriptIsRoundsInOrder ==
    debate_pc # "idle"
    => /\ transcript_file = RoundsBefore(debate_experts, RoundsFinished + 1)
       /\ Len(transcript_file) = RoundsFinished * debate_experts
       /\ debate_pc # "extended" => debate_transcript = transcript_file

\* a debate of several experts has finished its last round
C32_AllRoundsPersisted ==
    /\ debate_pc = "finished"
    /\ debate_experts > 1
    /\ Len(transcript_file) = DEBATE_ROUNDS * debate_experts
    /\ transcript_file[Len(transcript_file)] = Output(debate_experts, DEBATE_ROUNDS)

\* the router runs on a task that Research completed at once because no
\* expert was created for it: only that path completes a task before the router
SkippedAtRouter ==
    /\ pc = "router"
    /\ last_completed_node \in {"writing_node", "exploration_node"}
    /\ current_plan_node_id # None
    /\ plan.st[current_plan_node_id] = "completed"

\* C33: a task for which no expert is created is completed by Research at
\* once, and the router then goes on to the next pending task, or to Summarize
\* when there is none, leaving the retry counter as it was: nothing of the next
\* task's retry budget is used up, and the task is not researched again.
C33_SkippedTaskCostsNoRetry ==
    [][SkippedAtRouter =>
          /\ pc' = AfterCommit(plan)
          /\ research_retry_count' <= research_retry_count
          /\ attempts[current_plan_node_id] = 1]_vars

\* the tree `updated` is the tree p with k new pending children at the end of
\* the children of parent, and nothing else changed
GrownBy(p, updated, parent, k) ==
    /\ Len(updated.par) = Len(p.par) + k
    /\ \A n \in NodeIds(p) : updated.par[n] = p.par[n] /\ updated.st[n] = p.st[n]
    /\ \A j \in 1..k : /\ updated.par[Len(p.par) + j] = parent
                        /\ updated.st[Len(p.par) + j] = "pending"
    /\ Children(updated, parent) = Children(p, parent) \o [j \in 1..k |-> Len(p.par) + j]

\* C34: whatever proposals an Exploration stage is handed for the current
\* task, the proposal at position i gets a child if and only if it has its
\* three keys, its approval check answers APPROVE (a reply without a decision
\* counts as a rejection) and the task is above the depth limit; the children
\* are appended in the order of the proposals, and a dropped proposal stops
\* neither the stage nor the proposals after it.
C34_ChildIffValidApprovedBelowLimit ==
    /\ (pc = "exploration" /\ current_plan_node_id # None)
       => \A proposals \in ProposalLists :
             LET kept == AppendedProposals(plan, proposals, current_plan_node_id)
                 updated == PlanUpdaterExecute(plan, proposals, current_plan_node_id)
             IN /\ \A i \in 1..Len(proposals) :
                      (\E j \in 1..Len(kept) : kept[j] = i)
                         <=> /\ proposals[i] = "approve"
                             /\ Depth(plan, current_plan_node_id) < MAX_PLAN_DEPTH
                /\ \A j \in 1..(Len(kept) - 1) : kept[j] < kept[j + 1]
                /\ GrownBy(plan, updated, current_plan_node_id, Len(kept))
    /\ (pc = "critique" /\ lastExploration.node # None)
       => /\ lastExploration.added = Len(lastExploration.kept)
          /\ lastExploration.added =
                IF Depth(plan, lastExploration.node) < MAX_PLAN_DEPTH
                THEN lastExploration.approved ELSE 0

\* an Exploration stage dropped its first proposal and appended a child for
\* its second
C34_SecondProposalAppended ==
    /\ pc = "critique"
    /\ lastExploration.node # None
    /\ lastExploration.kept = <<2>>
    /\ plan.par[Len(plan.par)] = lastExploration.node

\* two documents the claim counts as the same: the same doc_id, or no doc_id
\* on either and equal content
SameDocument(a, b) ==
    IF DocId(a) # None /\ DocId(b) # None THEN DocId(a) = DocId(b)
    ELSE DocId(a) = None /\ DocId(b) = None /\ Content(a) = Content(b)

C36_AtMostOneRun ==
    \A t \in 1..MaxStartRequests, u \in 1..MaxStartRequests :
        (run_thread[t] \in {"started", "invoking"} /\ run_thread[u] \in {"started", "invoking"})
            => t = u

\* C37: at every point of a run at most one node of the plan is in-progress,
\* and a node that is in-progress is the current task.
C37_OnlyCurrentTaskInProgress ==
    \A n \in NodeIds(plan) :
        plan.st[n] = "in-progress" => n = current_plan_node_id

\* C38 as stated: a run ends only through Summarize.
C38_EndsOnlyThroughSummarize ==
    /\ pc \notin {"failed", "critique_raised", "ended"}
    /\ pc = "router" =>
          last_completed_node \in {"planning_node", "writing_node", "exploration_node"}

\* C38 amended: the router never ends a run: whenever it runs, the last
\* completed stage is planning, writing or exploration, so its branch for an
\* unknown stage is never taken; a run ends through Summarize or by an
\* exception that leaves the stage graph.
C38_RouterNeverEnds ==
    /\ pc = "router" =>
          last_completed_node \in {"planning_node", "writing_node", "exploration_node"}
    /\ pc # "ended"
    /\ route # "end"

\* the router runs after a Research stage that found no pending task and
\* left the last completed stage as it was
C38_RouterAfterEmptyResearch ==
    /\ pc = "router"
    /\ current_plan_node_id = None
    /\ last_completed_node = "exploration_node"
    /\ route = "retry"

\* C39: the root of a new plan is pending, so it is the first task Research
\* selects, and it is completed before Research selects any of its children.
C39_RootResearchedFirst ==
    /\ (pc = "critique" /\ last_completed_node = "planning_node") => plan.st[1] = "pending"
    /\ (\E n \in NodeIds(plan) : attempts[n] > 0) => attempts[1] > 0
    /\ \A n \in NodeIds(plan) :
          (plan.par[n] = 1 /\ attempts[n] > 0) => plan.st[1] = "completed"

\* C40: a run that the server starts after an earlier run has finished starts
\* from an empty Blackboard, and the text its Summarize stage concatenates
\* holds only entries of tasks committed during that run.
C40_LaterRunSummarizesOwnEntries ==
    /\ pc = "planning" => final_order = <<>>
    /\ summary_calls >= 1 =>
          \A i \in 1..Len(final_order) :
              /\ final_order[i] \in NodeIds(plan)
              /\ attempts[final_order[i]] > 0
              /\ summary_input[i] = final_content[final_order[i]]

====
